---------------------------- MODULE Spec2Model ----------------------------
(***************************************************************************)
(* The FoundationDB-backed concurrency queue of apps/api                   *)
(* (src/apps/api/src/services/fdb-queue.ts): job queue, crawl and TTL      *)
(* indexes, atomic counters, active-job records, janitor sweeps and        *)
(* counter reconciliation.  Every doTransaction body is one atomic step    *)
(* (FoundationDB transactions are strictly serializable and the retry loop *)
(* re-runs the whole body); reads made outside a transaction               *)
(* (database.get, database.getRangeAll) are steps of their own.            *)
(*                                                                         *)
(* Keys are kept as the tuples handed to fdb.tuple.pack; the packed bytes  *)
(* are computed where the code compares keys, that is in range reads.      *)
(***************************************************************************)
EXTENDS Integers, Sequences, FiniteSets, Bags, TLC

(***************************************************************************)
(* Bounds of the model.                                                    *)
(***************************************************************************)
MaxPushes == 3
MaxTime == 2
NumWorkers == 2
MaxActive == 2

Teams == {1, 2}
JobIds == {1, 2, 3}
Crawls == {1}
Priorities == {5, 10}
Payloads == {1, 2}
Timeouts == {0, 1}
Workers == 1..NumWorkers

\* A field that is undefined in the code (timesOutAt?, crawlId?,
\* listenChannelId?).  The code tests these fields for truthiness only.
Undefined == 0

(***************************************************************************)
(* fdb.tuple.pack: the FoundationDB tuple layer.  A byte string is type    *)
(* code 0x01, a unicode string 0x02, both terminated by 0x00 with embedded *)
(* 0x00 escaped as 0x00 0xff; an integer is type code 0x14 +/- its byte    *)
(* length followed by its big-endian bytes (one's complement when          *)
(* negative).                                                              *)
(***************************************************************************)
RECURSIVE EscapeNul(_)
EscapeNul(b) ==
    IF b = <<>> THEN <<>>
    ELSE (IF Head(b) = 0 THEN <<0, 255>> ELSE <<Head(b)>>) \o EscapeNul(Tail(b))

EncodeBytes(b) == <<1>> \o EscapeNul(b) \o <<0>>

EncodeString(s) == <<2>> \o EscapeNul(s) \o <<0>>

RECURSIVE BigEndian(_)
BigEndian(n) == IF n = 0 THEN <<>> ELSE BigEndian(n \div 256) \o <<n % 256>>

RECURSIVE PadTo(_, _)
PadTo(b, len) == IF Len(b) >= len THEN b ELSE PadTo(<<0>> \o b, len)

RECURSIVE Pow256(_)
Pow256(k) == IF k = 0 THEN 1 ELSE 256 * Pow256(k - 1)

EncodeInt(n) ==
    IF n >= 0
    THEN LET b == BigEndian(n) IN <<20 + Len(b)>> \o b
    ELSE LET len == Len(BigEndian(-n))
         IN <<20 - len>> \o PadTo(BigEndian(n + Pow256(len) - 1), len)

\* Byte-wise order of keys, the order of the store.
RECURSIVE LexLess(_, _)
LexLess(a, b) ==
    IF b = <<>> THEN FALSE
    ELSE IF a = <<>> THEN TRUE
    ELSE IF Head(a) # Head(b) THEN Head(a) < Head(b)
    ELSE LexLess(Tail(a), Tail(b))

\* The strings behind the model's ids: "t1", "j1", "c1", ...
TeamStr(t) == <<116, 48 + t>>
JobStr(j) == <<106, 48 + j>>
CrawlStr(c) == <<99, 48 + c>>

QUEUE_PREFIX == <<1>>
CRAWL_INDEX_PREFIX == <<2>>
COUNTER_PREFIX == <<3>>
ACTIVE_PREFIX == <<4>>
ACTIVE_CRAWL_PREFIX == <<5>>
TTL_INDEX_PREFIX == <<6>>

COUNTER_TEAM == <<1>>
COUNTER_CRAWL == <<2>>
COUNTER_ACTIVE_TEAM == <<3>>
COUNTER_ACTIVE_CRAWL == <<4>>

\* Queue key <<teamId, priority, createdAt, jobId>>.
buildQueueKey(k) ==
    EncodeBytes(QUEUE_PREFIX) \o EncodeString(TeamStr(k[1])) \o EncodeInt(k[2])
        \o EncodeInt(k[3]) \o EncodeString(JobStr(k[4]))

\* Crawl index key <<crawlId, jobId>>.
buildCrawlIndexKey(k) ==
    EncodeBytes(CRAWL_INDEX_PREFIX) \o EncodeString(CrawlStr(k[1]))
        \o EncodeString(JobStr(k[2]))

\* TTL index key <<expiresAt, teamId, jobId>>.
buildTTLIndexKey(k) ==
    EncodeBytes(TTL_INDEX_PREFIX) \o EncodeInt(k[1]) \o EncodeString(TeamStr(k[2]))
        \o EncodeString(JobStr(k[3]))

\* Active key <<teamId, jobId>> and active crawl key <<crawlId, jobId>>.
buildActiveKey(k) ==
    EncodeBytes(ACTIVE_PREFIX) \o EncodeString(TeamStr(k[1]))
        \o EncodeString(JobStr(k[2]))

buildActiveCrawlKey(k) ==
    EncodeBytes(ACTIVE_CRAWL_PREFIX) \o EncodeString(CrawlStr(k[1]))
        \o EncodeString(JobStr(k[2]))

(***************************************************************************)
(* encodeInt64LE / decodeInt64LE (counters, atomic ADD operands) and       *)
(* encodeInt64BE / decodeInt64BE (expiry times): eight bytes, two's        *)
(* complement.  The model's integers have 32 bits, so the upper four bytes *)
(* are the sign extension.                                                 *)
(***************************************************************************)
Reverse(b) == [i \in 1..Len(b) |-> b[Len(b) + 1 - i]]

encodeInt64LE(n) ==
    [i \in 1..8 |->
        IF i <= 4 THEN (n \div Pow256(i - 1)) % 256
        ELSE IF n < 0 THEN 255 ELSE 0]

decodeInt64LE(buf) ==
    IF Len(buf) = 0 THEN 0
    ELSE IF buf[8] >= 128
    THEN -(255 - buf[1] + 256 * (255 - buf[2]) + 65536 * (255 - buf[3])
             + 16777216 * (255 - buf[4])) - 1
    ELSE buf[1] + 256 * buf[2] + 65536 * buf[3] + 16777216 * buf[4]

encodeInt64BE(n) == Reverse(encodeInt64LE(n))

decodeInt64BE(buf) == decodeInt64LE(Reverse(buf))

(***************************************************************************)
(* The key-value store: one function per subspace, from key tuple to       *)
(* value.  Counters are keyed <<kind, id>>.                                *)
(***************************************************************************)
Put(kv, k, v) == [x \in DOMAIN kv \cup {k} |-> IF x = k THEN v ELSE kv[x]]

ClearAll(kv, ks) == [x \in DOMAIN kv \ ks |-> kv[x]]

\* A write of the operand in place of an addition to the stored value.
AtomicAddAsSet(kv, k, d) == Put(kv, k, encodeInt64LE(d))

\* tr.add(key, encodeInt64LE(d)): the store's atomic ADD, a little-endian
\* addition of the operand to the stored value; a missing key counts as 0
\* and is created.
AtomicAdd(kv, k, d) ==
    Put(kv, k, encodeInt64LE((IF k \in DOMAIN kv THEN decodeInt64LE(kv[k])
                              ELSE 0) + d))

\* A read that is off by one on every stored value.
ReadCounterOffByOne(kv, k) ==
    IF k \in DOMAIN kv THEN decodeInt64LE(kv[k]) + 1 ELSE 0

\* database.get(counterKey) followed by `value ? decodeInt64LE(value) : 0`.
ReadCounter(kv, k) == IF k \in DOMAIN kv THEN decodeInt64LE(kv[k]) ELSE 0

\* The keys whose packed form lies in [start, end); packed maps each key
\* tuple of a subspace to its bytes.
InRange(packed, start, end) ==
    {k \in DOMAIN packed :
        ~LexLess(packed[k], start) /\ LexLess(packed[k], end)}

\* The keys of DOMAIN packed in the byte order of their packed form.
RECURSIVE SortKeys(_, _)
SortKeys(ks, packed) ==
    IF ks = {} THEN <<>>
    ELSE LET m == CHOOSE k \in ks : \A o \in ks : ~LexLess(packed[o], packed[k])
         IN <<m>> \o SortKeys(ks \ {m}, packed)

FirstN(s, n) == IF Len(s) <= n THEN s ELSE SubSeq(s, 1, n)

\* getRangeAll(start, end, {limit}): the keys read, in order.
GetRangeAll(packed, start, end, limit) ==
    FirstN(SortKeys(InRange(packed, start, end), packed), limit)

SeqToSet(s) == {s[i] : i \in 1..Len(s)}


(***************************************************************************)
(* State.                                                                  *)
(***************************************************************************)
VARIABLES
    queue,        \* <<teamId, priority, createdAt, jobId>> -> job JSON
    crawlIdx,     \* <<crawlId, jobId>> -> [teamId, priority, createdAt]
    ttlIdx,       \* <<expiresAt, teamId, jobId>> -> [priority, createdAt, crawlId]
    counters,     \* <<counter type, id>> -> int64, little-endian
    active,       \* <<teamId, jobId>> -> expiresAt, big-endian int64
    activeCrawl,  \* <<crawlId, jobId>> -> expiresAt, big-endian int64
    now,          \* Date.now()
    pop,          \* per worker: its popNextJob call
    sweep,        \* the cleanExpiredJobs run
    asweep,       \* the cleanExpiredActiveJobs run
    rec,          \* the reconcile*Counter run
    stale,        \* the cleanStaleCounters run
    nPushed,      \* pushJob calls made so far
    nActive,      \* push*ActiveJob calls made so far
    pushed,       \* history: the bag of job records pushJob handed to the store
    returned,     \* history: worker, team argument and job of every popNextJob
                  \* call that returned a job
    phase         \* workload: "load" while jobs are pushed and popped, "drain"
                  \* once the workers empty the queue, "active" for active records

\* The team concurrency semaphore (team-semaphore.ts) and its callers.
VARIABLES
    leases,       \* the team's lease set: holderId -> expires_at
    clock,        \* the time the semaphore store and its callers observe
    sem,          \* per holder: its withSemaphore call
    semLimit      \* the concurrency limit the callers pass

\* The circuit breaker of fdb-queue.ts and the calls that go through it.
VARIABLES
    circuit,      \* circuitState, circuitOpenedAt, consecutiveFailures
    calls,        \* per caller: its call of an exported operation
    chist         \* history: failures recorded in a row, time of the last
                  \* transition into "open"

\* removeJobsForCrawl: the position of the one cancellation run.
VARIABLE cancel

\* cleanExpiredJobs: the run of a second janitor replica.
VARIABLE sweepB

\* The stress test of the queue service: its CorrectnessChecker and the
\* calls the test has made to it.
VARIABLES checker, harness

\* The claim protocol of the queue service (pop, release).
VARIABLES
    claimRecs,    \* <<jobId, versionstamp>> -> [workerId, queueKey]
    arb,          \* per worker: its pop through the claim arbiter
    vstamp        \* the versionstamp of the last commit that wrote a claim

storeVars == <<queue, crawlIdx, ttlIdx, counters, active, activeCrawl>>
procVars == <<pop, sweep, asweep, rec, stale>>
histVars == <<nPushed, nActive, pushed, returned, phase>>
semVars == <<leases, clock, sem, semLimit>>
circuitVars == <<circuit, calls, chist>>
claimVars == <<claimRecs, arb, vstamp>>
testVars == <<checker, harness>>
vars == <<storeVars, now, procVars, histVars, semVars, circuitVars, claimVars,
          cancel, sweepB, testVars>>

\* Each subspace as the store holds it: key tuple -> packed key bytes.
QueueKeys == [k \in DOMAIN queue |-> buildQueueKey(k)]

CrawlIndexKeys == [k \in DOMAIN crawlIdx |-> buildCrawlIndexKey(k)]

TTLIndexKeys == [k \in DOMAIN ttlIdx |-> buildTTLIndexKey(k)]

ActiveKeys == [k \in DOMAIN active |-> buildActiveKey(k)]

ActiveCrawlKeys == [k \in DOMAIN activeCrawl |-> buildActiveCrawlKey(k)]

(***************************************************************************)
(* FDBQueueJob and its JSON form.  JSON.stringify leaves out the members   *)
(* whose value is undefined; JSON.parse gives back an object on which      *)
(* those members read as undefined.                                        *)
(***************************************************************************)
JobFields ==
    {"id", "data", "priority", "listenable", "listenChannelId", "createdAt",
     "timesOutAt", "crawlId", "teamId"}

OptionalFields == {"listenChannelId", "timesOutAt", "crawlId"}

Stringify(job) ==
    [f \in {g \in JobFields : g \notin OptionalFields \/ job[g] # Undefined}
        |-> job[f]]

Parse(doc) ==
    [f \in JobFields |-> IF f \in DOMAIN doc THEN doc[f] ELSE Undefined]

\* Number.MAX_SAFE_INTEGER (2^53 - 1 in the code; here the largest integer
\* the model checker represents).
MAX_SAFE_INTEGER == 2147483647

(***************************************************************************)
(* pushJob(teamId, job, timeout, crawlId)                                  *)
(***************************************************************************)
pushJob(teamId, id, data, priority, timeout, crawlId) ==
    LET createdAt == now
        hasTimeout ==
            crawlId = Undefined /\ timeout > 0 /\ timeout < MAX_SAFE_INTEGER
        timesOutAt == IF hasTimeout THEN createdAt + timeout ELSE Undefined
        jobData ==
            [id |-> id, data |-> data, priority |-> priority,
             listenable |-> TRUE, listenChannelId |-> Undefined,
             createdAt |-> createdAt, timesOutAt |-> timesOutAt,
             crawlId |-> crawlId, teamId |-> teamId]
        withTeam == AtomicAdd(counters, <<"team", teamId>>, 1)
    IN  /\ queue' = Put(queue, <<teamId, priority, createdAt, id>>,
                        Stringify(jobData))
        /\ ttlIdx' =
             IF timesOutAt # Undefined
             THEN Put(ttlIdx, <<timesOutAt, teamId, id>>,
                      [priority |-> priority, createdAt |-> createdAt,
                       crawlId |-> crawlId])
             ELSE ttlIdx
        /\ crawlIdx' =
             IF crawlId # Undefined
             THEN Put(crawlIdx, <<crawlId, id>>,
                      [teamId |-> teamId, priority |-> priority,
                       createdAt |-> createdAt])
             ELSE crawlIdx
        /\ counters' =
             IF crawlId # Undefined
             THEN AtomicAdd(withTeam, <<"crawl", crawlId>>, 1)
             ELSE withTeam
        /\ pushed' = pushed (+) SetToBag({jobData})
        /\ nPushed' = nPushed + 1

(***************************************************************************)
(* Range reads.  The code bounds the range of one team (crawl, counter     *)
(* type, subspace) by the packed tuple and the packed tuple extended with  *)
(* the element Buffer.from([0xff]).                                        *)
(***************************************************************************)
\* A range end that is the start key followed by the raw byte 0xff.
RangeEndRawByte(startKey) == startKey \o <<255>>

RangeEnd(startKey) == startKey \o EncodeBytes(<<255>>)

TeamQueueStart(teamId) ==
    EncodeBytes(QUEUE_PREFIX) \o EncodeString(TeamStr(teamId))

\* A scan that reads the whole queue subspace, whatever the team.
ScanEveryTeam(teamId, limit) ==
    GetRangeAll(QueueKeys, EncodeBytes(QUEUE_PREFIX),
                EncodeBytes(QUEUE_PREFIX) \o <<255>>, limit)

\* getRangeAll over the queue entries of one team.
ScanTeamQueue(teamId, limit) ==
    GetRangeAll(QueueKeys, TeamQueueStart(teamId),
                RangeEnd(TeamQueueStart(teamId)), limit)

\* Adds total[i] to the counter <<kind, i>> for every i of ids with a
\* non-zero total (no ADD is issued for the others).
RECURSIVE AddEach(_, _, _, _)
AddEach(kv, kind, ids, total) ==
    IF ids = {} THEN kv
    ELSE LET i == CHOOSE x \in ids : TRUE
             next == IF total[i] = 0 THEN kv
                     ELSE AtomicAdd(kv, <<kind, i>>, total[i])
         IN AddEach(next, kind, ids \ {i}, total)

(***************************************************************************)
(* popNextJob(teamId, crawlConcurrencyChecker)                             *)
(***************************************************************************)
SCAN_LIMIT == 50
MAX_ATTEMPTS == 100

IdlePop ==
    [pc |-> "idle", teamId |-> 0, hasChecker |-> FALSE, now |-> 0,
     attempt |-> 0, crawlCache |-> <<>>, selected |-> <<>>, expired |-> <<>>,
     skipped |-> 0, blocked |-> {}, result |-> "none", overlap |-> FALSE,
     exhausted |-> FALSE]

\* The calls of other workers in progress on the same team.
Concurrent(w, teamId) ==
    {o \in Workers \ {w} : pop[o].pc # "idle" /\ pop[o].teamId = teamId}

\* checkCircuit, getDb, now = Date.now(), empty caches.  overlap is
\* history: the call ran while another call on the same team was running.
popNextJob_begin(w, teamId, hasChecker) ==
    /\ pop[w].pc = "idle"
    /\ pop' = [o \in Workers |->
                 IF o = w
                 THEN [IdlePop EXCEPT !.pc = "scan", !.teamId = teamId,
                                      !.hasChecker = hasChecker, !.now = now,
                                      !.overlap = Concurrent(w, teamId) # {}]
                 ELSE IF o \in Concurrent(w, teamId)
                 THEN [pop[o] EXCEPT !.overlap = TRUE]
                 ELSE pop[o]]

\* Phase 1: the candidates read by the scan, with their parsed values.
Candidates(teamId) ==
    LET keys == ScanTeamQueue(teamId, SCAN_LIMIT)
    IN [i \in 1..Len(keys) |-> [key |-> keys[i], job |-> Parse(queue[keys[i]])]]

IsExpired(c, callNow) ==
    c.job.timesOutAt # Undefined /\ c.job.timesOutAt < callNow

\* A selection that skips no candidate for its crawl.
NeverBlocked(c, cache, hasChecker, blocked) == FALSE

\* The candidate is skipped: its crawl has a concurrency limit, a checker
\* was passed and the checker answered "cannot run".
IsBlocked(c, cache, hasChecker, blocked) ==
    /\ c.job.crawlId # Undefined
    /\ cache[c.job.crawlId]
    /\ hasChecker
    /\ c.job.crawlId \in blocked

\* Phase 2 over the candidates: the index of the selected job (0 if none).
SelectedIndex(cands, callNow, cache, hasChecker, blocked) ==
    LET valid == {i \in 1..Len(cands) :
                    /\ ~IsExpired(cands[i], callNow)
                    /\ ~IsBlocked(cands[i], cache, hasChecker, blocked)}
    IN IF valid = {} THEN 0 ELSE CHOOSE i \in valid : \A j \in valid : i <= j

\* The call has returned; its argument and outcome stay on record until
\* the worker's next call.
Finished(me, result) ==
    [IdlePop EXCEPT !.result = result, !.teamId = me.teamId,
                    !.overlap = me.overlap]

\* A loop that does not count its attempts: another attempt after every
\* attempt that did not return a job.
RetryUncounted(me) ==
    [me EXCEPT !.pc = "scan", !.selected = <<>>, !.expired = <<>>,
               !.skipped = 0, !.blocked = {}]

\* The outcome of the call after an attempt that did not return a job:
\* another attempt, or null once the attempt ceiling is reached (exhausted
\* is history: the call ended at the ceiling).
RetryOrGiveUp(me) ==
    IF me.attempt + 1 < MAX_ATTEMPTS
    THEN [me EXCEPT !.pc = "scan", !.attempt = @ + 1, !.selected = <<>>,
                    !.expired = <<>>, !.skipped = 0, !.blocked = {}]
    ELSE [Finished(me, "null") EXCEPT !.exhausted = TRUE]

\* Phase 2 of an attempt (pc = "scan") over the candidates read.  blocked
\* is history: the answers of the checker in this attempt.
popNextJob_select(w, cands) ==
    LET me == pop[w]
        fetched == {cands[i].job.crawlId : i \in 1..Len(cands)}
                        \ ({Undefined} \cup DOMAIN me.crawlCache)
    IN
    \* the answers of the outside world: which of the crawls fetched have a
    \* concurrency limit, and for which crawls the checker says "cannot run"
    \E limited \in SUBSET fetched,
       blocked \in SUBSET (IF me.hasChecker THEN Crawls ELSE {}) :
      LET cache == [c \in DOMAIN me.crawlCache \cup fetched |->
                       IF c \in fetched THEN c \in limited
                       ELSE me.crawlCache[c]]
          sel == SelectedIndex(cands, me.now, cache, me.hasChecker, blocked)
          upto == IF sel = 0 THEN Len(cands) ELSE sel - 1
          seen == SubSeq(cands, 1, upto)
      IN  pop' = [pop EXCEPT ![w] =
               [me EXCEPT
                  !.pc = "remove",
                  !.crawlCache = cache,
                  !.selected = IF sel = 0 THEN <<>> ELSE <<cands[sel]>>,
                  !.expired =
                      SelectSeq(seen, LAMBDA c : IsExpired(c, me.now)),
                  \* every candidate passed over is expired or
                  \* blocked; the blocked ones are counted
                  !.skipped =
                      Cardinality({i \in 1..upto :
                          ~IsExpired(cands[i], me.now)}),
                  !.blocked = blocked]]

\* What follows the scan of an attempt: null on an empty scan, phase 2
\* otherwise.
popNextJob_scanned(w, cands) ==
    /\ IF Len(cands) = 0
       THEN pop' = [pop EXCEPT ![w] = Finished(pop[w], "null")]
       ELSE popNextJob_select(w, cands)
    /\ UNCHANGED <<storeVars, returned>>

\* Phases 1 and 2 of an attempt (pc = "scan"), then phase 3 and the
\* handling of its result (pc = "remove").
popNextJob_attempt(w) ==
    LET me == pop[w] IN
    IF me.pc = "scan"
    THEN \E cands \in {Candidates(me.teamId)} : popNextJob_scanned(w, cands)
    ELSE LET stillThere ==
                 {c \in SeqToSet(me.expired) : c.key \in DOMAIN queue}
             found == me.selected # <<>> /\ me.selected[1].key \in DOMAIN queue
             removed == stillThere \cup (IF found THEN {me.selected[1]} ELSE {})
             perCrawl == [c \in Crawls |->
                            -Cardinality({r \in removed : r.job.crawlId = c})]
             perTeam == [t \in {me.teamId} |-> -Cardinality(removed)]
         IN  /\ me.pc = "remove"
             /\ queue' = ClearAll(queue, {r.key : r \in removed})
             /\ ttlIdx' = ClearAll(ttlIdx,
                   {<<r.job.timesOutAt, me.teamId, r.job.id>> :
                       r \in {x \in removed : x.job.timesOutAt # Undefined}})
             /\ crawlIdx' = ClearAll(crawlIdx,
                   {<<r.job.crawlId, r.job.id>> :
                       r \in {x \in removed : x.job.crawlId # Undefined}})
             /\ counters' =
                   AddEach(AddEach(counters, "team", {me.teamId}, perTeam),
                           "crawl", Crawls, perCrawl)
             /\ UNCHANGED <<active, activeCrawl>>
             /\ IF found
                THEN /\ returned' = Append(returned,
                                         [worker |-> w, teamId |-> me.teamId,
                                          job |-> me.selected[1].job])
                     /\ pop' = [pop EXCEPT ![w] = Finished(me, "job")]
                ELSE /\ returned' = returned
                     /\ pop' = [pop EXCEPT ![w] =
                          IF me.selected = <<>> /\ me.skipped = 0
                          THEN Finished(me, "null")
                          ELSE RetryOrGiveUp(me)]


(***************************************************************************)
(* Count queries.                                                          *)
(***************************************************************************)
getTeamQueueCount(teamId) == ReadCounter(counters, <<"team", teamId>>)

getCrawlQueueCount(crawlId) == ReadCounter(counters, <<"crawl", crawlId>>)

Max(a, b) == IF a >= b THEN a ELSE b

getActiveJobCount(teamId) ==
    Max(0, ReadCounter(counters, <<"activeTeam", teamId>>))

(***************************************************************************)
(* Active job tracking.                                                    *)
(***************************************************************************)
ActiveTimeouts == {1}

\* The transaction of pushActiveJob / pushCrawlActiveJob on the records of
\* one subspace and the counters: the record is written and the counter of
\* its owner (team or crawl) incremented.
AfterPushActive(s, counterType, ownerId, jobId, expiresAt) ==
    [records |-> Put(s.records, <<ownerId, jobId>>, encodeInt64BE(expiresAt)),
     counters |-> AtomicAdd(s.counters, <<counterType, ownerId>>, 1)]

\* A removal that clears the record and leaves the counter alone.
AfterRemoveActiveNoCount(s, counterType, ownerId, jobId) ==
    [s EXCEPT !.records = ClearAll(s.records, {<<ownerId, jobId>>})]

\* The transaction of removeActiveJob / removeCrawlActiveJob: the record is
\* cleared and the counter decremented only if the key exists.
AfterRemoveActive(s, counterType, ownerId, jobId) ==
    IF <<ownerId, jobId>> \in DOMAIN s.records
    THEN [records |-> ClearAll(s.records, {<<ownerId, jobId>>}),
          counters |-> AtomicAdd(s.counters, <<counterType, ownerId>>, -1)]
    ELSE s

TeamActiveStore == [records |-> active, counters |-> counters]

CrawlActiveStore == [records |-> activeCrawl, counters |-> counters]

pushActiveJob(teamId, jobId, timeout) ==
    LET s == AfterPushActive(TeamActiveStore, "activeTeam", teamId, jobId,
                             now + timeout)
    IN  /\ active' = s.records
        /\ counters' = s.counters

removeActiveJob(teamId, jobId) ==
    LET s == AfterRemoveActive(TeamActiveStore, "activeTeam", teamId, jobId)
    IN  /\ active' = s.records
        /\ counters' = s.counters

pushCrawlActiveJob(crawlId, jobId, timeout) ==
    LET s == AfterPushActive(CrawlActiveStore, "activeCrawl", crawlId, jobId,
                             now + timeout)
    IN  /\ activeCrawl' = s.records
        /\ counters' = s.counters

removeCrawlActiveJob(crawlId, jobId) ==
    LET s == AfterRemoveActive(CrawlActiveStore, "activeCrawl", crawlId, jobId)
    IN  /\ activeCrawl' = s.records
        /\ counters' = s.counters

(***************************************************************************)
(* cleanExpiredJobs(): the TTL sweep.                                      *)
(***************************************************************************)
SWEEP_BATCH == 100
MAX_BATCHES == 10

\* overlap is history: the run began while the run of another replica
\* was in progress.
IdleSweep ==
    [pc |-> "idle", now |-> 0, cleaned |-> 0, batches |-> 0, result |-> 0,
     overlap |-> FALSE]

\* getDb, now = Date.now(), cleaned = 0, batches = 0.
cleanExpiredJobs_begin ==
    /\ sweep.pc = "idle"
    /\ sweep' = [IdleSweep EXCEPT !.pc = "batch", !.now = now,
                                  !.result = sweep.result]

\* The TTL index entries with expires_at < now, oldest first.
ExpiredTTLKeys(sweepNow, limit) ==
    GetRangeAll(TTLIndexKeys, EncodeBytes(TTL_INDEX_PREFIX),
                EncodeBytes(TTL_INDEX_PREFIX) \o EncodeInt(sweepNow), limit)

\* A transaction that leaves the TTL index entries it has handled.
cleanExpiredJobs_transactionKeepTtl(sweepNow) ==
    \E entries \in {SeqToSet(ExpiredTTLKeys(sweepNow, SWEEP_BATCH))} :
    LET queueKeyOf(k) == <<k[2], ttlIdx[k].priority, ttlIdx[k].createdAt, k[3]>>
        perTeam == [t \in Teams |-> -Cardinality({k \in entries : k[2] = t})]
    IN  /\ queue' = ClearAll(queue, {queueKeyOf(k) : k \in entries})
        /\ counters' = AddEach(counters, "team", Teams, perTeam)
        /\ UNCHANGED <<crawlIdx, ttlIdx, active, activeCrawl>>

\* The transaction of one pass of the while loop of a run that took
\* sweepNow as its now.
cleanExpiredJobs_transaction(sweepNow) ==
    \E entries \in {SeqToSet(ExpiredTTLKeys(sweepNow, SWEEP_BATCH))} :
    LET queueKeyOf(k) == <<k[2], ttlIdx[k].priority, ttlIdx[k].createdAt, k[3]>>
        withCrawl == {k \in entries : ttlIdx[k].crawlId # Undefined}
        perTeam == [t \in Teams |-> -Cardinality({k \in entries : k[2] = t})]
        perCrawl == [c \in Crawls |->
                        -Cardinality({k \in withCrawl : ttlIdx[k].crawlId = c})]
    IN  /\ queue' = ClearAll(queue, {queueKeyOf(k) : k \in entries})
        /\ crawlIdx' = ClearAll(crawlIdx,
                                {<<ttlIdx[k].crawlId, k[3]>> : k \in withCrawl})
        /\ ttlIdx' = ClearAll(ttlIdx, entries)
        /\ counters' = AddEach(AddEach(counters, "team", Teams, perTeam),
                               "crawl", Crawls, perCrawl)
        /\ UNCHANGED <<active, activeCrawl>>

\* The run after a pass that cleaned count entries: the loop's exit test.
AfterSweepBatch(s, count) ==
    IF count < SWEEP_BATCH \/ s.batches + 1 >= MAX_BATCHES
    THEN [IdleSweep EXCEPT !.result = s.cleaned + count,
                           !.overlap = s.overlap]
    ELSE [s EXCEPT !.cleaned = s.cleaned + count, !.batches = s.batches + 1]

\* One pass of the while loop: one transaction, then the loop's exit test.
cleanExpiredJobs_batch ==
    /\ sweep.pc = "batch"
    /\ cleanExpiredJobs_transaction(sweep.now)
    /\ sweep' = AfterSweepBatch(sweep,
                    Len(ExpiredTTLKeys(sweep.now, SWEEP_BATCH)))

(***************************************************************************)
(* cleanExpiredActiveJobs(): team records first, then crawl records.       *)
(***************************************************************************)
ACTIVE_SWEEP_BATCH == 100

IdleASweep == [pc |-> "idle", now |-> 0, cleaned |-> 0, result |-> 0]

cleanExpiredActiveJobs_begin ==
    /\ asweep.pc = "idle"
    /\ asweep' = [IdleASweep EXCEPT !.pc = "team", !.now = now,
                                    !.result = asweep.result]

\* One pass of the first (pc = "team") or second (pc = "crawl") while loop.
cleanExpiredActiveJobs_batch ==
    LET onTeams == asweep.pc = "team"
        kv == IF onTeams THEN active ELSE activeCrawl
        startKey == EncodeBytes(IF onTeams THEN ACTIVE_PREFIX
                                ELSE ACTIVE_CRAWL_PREFIX)
        entries ==
            IF onTeams
            THEN SeqToSet(GetRangeAll(ActiveKeys, startKey,
                                      RangeEnd(startKey), ACTIVE_SWEEP_BATCH))
            ELSE SeqToSet(GetRangeAll(ActiveCrawlKeys, startKey, RangeEnd(startKey),
                                      ACTIVE_SWEEP_BATCH))
        expired == {k \in entries : decodeInt64BE(kv[k]) < asweep.now}
        count == Cardinality(expired)
        ids == IF onTeams THEN Teams ELSE Crawls
        perId == [i \in ids |-> -Cardinality({k \in expired : k[1] = i})]
        cleaned == asweep.cleaned + count
    IN  /\ asweep.pc \in {"team", "crawl"}
        /\ IF onTeams
           THEN /\ active' = ClearAll(active, expired)
                /\ counters' = AddEach(counters, "activeTeam", Teams, perId)
                /\ UNCHANGED activeCrawl
           ELSE /\ activeCrawl' = ClearAll(activeCrawl, expired)
                /\ counters' = AddEach(counters, "activeCrawl", Crawls, perId)
                /\ UNCHANGED active
        /\ asweep' =
             IF count < ACTIVE_SWEEP_BATCH
             THEN IF onTeams
                  THEN [asweep EXCEPT !.pc = "crawl", !.cleaned = cleaned]
                  ELSE [IdleASweep EXCEPT !.result = cleaned]
             ELSE [asweep EXCEPT !.cleaned = cleaned]
        /\ UNCHANGED <<queue, crawlIdx, ttlIdx>>


(***************************************************************************)
(* Counter keys and the four reconcile*Counter operations.  One run is:    *)
(* count the records by range reads, read the counter, and, when the two   *)
(* differ, set the counter in a transaction of its own.                    *)
(***************************************************************************)
CounterType(kind) ==
    CASE kind = "team" -> COUNTER_TEAM
      [] kind = "crawl" -> COUNTER_CRAWL
      [] kind = "activeTeam" -> COUNTER_ACTIVE_TEAM
      [] kind = "activeCrawl" -> COUNTER_ACTIVE_CRAWL

IdStr(kind, id) ==
    IF kind \in {"team", "activeTeam"} THEN TeamStr(id) ELSE CrawlStr(id)

\* buildTeamCounterKey, buildCrawlCounterKey, buildActiveTeamCounterKey,
\* buildActiveCrawlCounterKey on the counter key <<kind, id>>.
buildCounterKey(k) ==
    EncodeBytes(COUNTER_PREFIX) \o EncodeBytes(CounterType(k[1]))
        \o EncodeString(IdStr(k[1], k[2]))

CounterKeys == [k \in DOMAIN counters |-> buildCounterKey(k)]

RECONCILE_BATCH == 1000

ReconcileKinds == {"team", "crawl", "activeTeam", "activeCrawl"}

\* The start key of the records a counter of this kind counts.
RecordsStart(kind, id) ==
    EncodeBytes(CASE kind = "team" -> QUEUE_PREFIX
                  [] kind = "crawl" -> CRAWL_INDEX_PREFIX
                  [] kind = "activeTeam" -> ACTIVE_PREFIX
                  [] kind = "activeCrawl" -> ACTIVE_CRAWL_PREFIX)
        \o EncodeString(IdStr(kind, id))

\* clean, chain and before are history: no transaction of another
\* operation has committed since the run began; the run began right after
\* a run of the same operation and argument, with no such transaction in
\* between; the counter's value when the run began.
IdleRec ==
    [pc |-> "idle", kind |-> "team", id |-> 0, now |-> 0, actual |-> 0,
     lastKey |-> <<>>, current |-> 0, result |-> 0,
     clean |-> FALSE, chain |-> FALSE, before |-> 0]

\* A transaction of another operation commits: a finished run is history
\* no longer, a run in progress is no longer undisturbed.
Touch(r) == IF r.pc = "done" THEN IdleRec ELSE [r EXCEPT !.clean = FALSE]

reconcile_begin(kind, id) ==
    /\ rec.pc \in {"idle", "done"}
    /\ rec' = [IdleRec EXCEPT
                 !.pc = "scan", !.kind = kind, !.id = id,
                 !.now = IF kind \in {"activeTeam", "activeCrawl"} THEN now ELSE 0,
                 !.clean = TRUE,
                 !.chain = rec.pc = "done" /\ rec.clean /\ rec.kind = kind
                              /\ rec.id = id,
                 !.before = ReadCounter(counters, <<kind, id>>)]

\* One range read of the counting loop (queue kinds), or the single range
\* read and the expiry filter (active kinds).
ReconcileScan(r) ==
    LET startKey == RecordsStart(r.kind, r.id)
        endKey == RangeEnd(startKey)
        rangeStart == IF r.lastKey # <<>> THEN r.lastKey \o <<0>> ELSE startKey
    IN CASE r.kind = "team" ->
              LET e == GetRangeAll(QueueKeys, rangeStart,
                                   endKey, RECONCILE_BATCH)
              IN [n |-> Len(e), more |-> Len(e) >= RECONCILE_BATCH,
                  last |-> IF e = <<>> THEN <<>> ELSE buildQueueKey(e[Len(e)])]
         [] r.kind = "crawl" ->
              LET e == GetRangeAll(CrawlIndexKeys, rangeStart, endKey, RECONCILE_BATCH)
              IN [n |-> Len(e), more |-> Len(e) >= RECONCILE_BATCH,
                  last |-> IF e = <<>> THEN <<>>
                           ELSE buildCrawlIndexKey(e[Len(e)])]
         [] r.kind = "activeTeam" ->
              LET e == InRange(ActiveKeys, startKey, endKey)
              IN [n |-> Cardinality({k \in e : decodeInt64BE(active[k]) > r.now}),
                  more |-> FALSE, last |-> <<>>]
         [] r.kind = "activeCrawl" ->
              LET e == InRange(ActiveCrawlKeys, startKey, endKey)
              IN [n |-> Cardinality({k \in e :
                                         decodeInt64BE(activeCrawl[k]) > r.now}),
                  more |-> FALSE, last |-> <<>>]

reconcile_step ==
    CASE rec.pc = "scan" ->
           LET got == ReconcileScan(rec)
           IN  /\ rec' = [rec EXCEPT !.actual = @ + got.n,
                                     !.lastKey = got.last,
                                     !.pc = IF got.more THEN "scan" ELSE "read"]
               /\ UNCHANGED counters
      [] rec.pc = "read" ->
           LET currentCount == ReadCounter(counters, <<rec.kind, rec.id>>)
           IN  /\ rec' = IF rec.actual = currentCount
                         THEN [rec EXCEPT !.pc = "done", !.current = currentCount,
                                          !.result = 0]
                         ELSE [rec EXCEPT !.pc = "set", !.current = currentCount]
               /\ UNCHANGED counters
      [] rec.pc = "set" ->
           /\ counters' = Put(counters, <<rec.kind, rec.id>>,
                             encodeInt64LE(rec.actual))
           /\ rec' = [rec EXCEPT !.pc = "done",
                                 !.result = rec.actual - rec.current]
      [] OTHER -> FALSE

(***************************************************************************)
(* cleanStaleCounters(): team-queue counters, then crawl-queue counters.   *)
(***************************************************************************)
STALE_BATCH_SIZE == 50

IdleStale ==
    [pc |-> "idle", kind |-> "team", todo |-> <<>>, batch |-> 0, last |-> 0,
     cleaned |-> 0, result |-> 0]

\* sampleTeamCounters(limit, afterId) and sampleCrawlCounters(limit, afterId):
\* the ids (third tuple element) of the counter keys read.
sampleCounters(kind, limit, afterId) ==
    LET typeKey == EncodeBytes(COUNTER_PREFIX) \o EncodeBytes(CounterType(kind))
        startKey == IF afterId # Undefined
                    THEN typeKey \o EncodeString(IdStr(kind, afterId))
                            \o EncodeBytes(<<0>>)
                    ELSE typeKey
        keys == GetRangeAll(CounterKeys, startKey,
                            RangeEnd(typeKey), limit)
    IN [i \in 1..Len(keys) |-> keys[i][2]]

\* The range read with limit 1 that decides whether the id has records.
HasRecords(kind, id) ==
    LET startKey == RecordsStart(kind, id)
    IN IF kind = "team"
       THEN GetRangeAll(QueueKeys, startKey,
                        RangeEnd(startKey), 1) # <<>>
       ELSE GetRangeAll(CrawlIndexKeys, startKey,
                        RangeEnd(startKey), 1) # <<>>

\* After the for loop over one sample: the next sample, the next kind or
\* the end of the run.
StaleAdvance(st) ==
    IF st.todo # <<>> THEN [st EXCEPT !.pc = "check"]
    ELSE IF st.batch >= STALE_BATCH_SIZE THEN [st EXCEPT !.pc = "sample"]
    ELSE IF st.kind = "team"
         THEN [st EXCEPT !.pc = "sample", !.kind = "crawl", !.last = Undefined]
    ELSE [IdleStale EXCEPT !.result = st.cleaned]

cleanStaleCounters_begin ==
    /\ stale.pc = "idle"
    /\ stale' = [IdleStale EXCEPT !.pc = "sample", !.result = stale.result]

cleanStaleCounters_step ==
    CASE stale.pc = "sample" ->
           LET ids == sampleCounters(stale.kind, STALE_BATCH_SIZE, stale.last)
           IN  /\ stale' =
                    IF ids = <<>>
                    THEN StaleAdvance([stale EXCEPT !.todo = <<>>, !.batch = 0])
                    ELSE [stale EXCEPT !.pc = "check", !.todo = ids,
                                       !.batch = Len(ids),
                                       !.last = ids[Len(ids)]]
               /\ UNCHANGED counters
      [] stale.pc = "check" ->
           /\ stale' = IF HasRecords(stale.kind, Head(stale.todo))
                       THEN StaleAdvance([stale EXCEPT !.todo = Tail(@)])
                       ELSE [stale EXCEPT !.pc = "clear"]
           /\ UNCHANGED counters
      [] stale.pc = "clear" ->
           /\ counters' = ClearAll(counters, {<<stale.kind, Head(stale.todo)>>})
           /\ stale' = StaleAdvance([stale EXCEPT !.todo = Tail(@),
                                                  !.cleaned = @ + 1])
      [] OTHER -> FALSE


(***************************************************************************)
(* The team concurrency semaphore.  The three scripts run atomically in    *)
(* the semaphore store on the lease set of one team: a map from holder id  *)
(* to expires_at.                                                          *)
(***************************************************************************)
NumHolders == 3
NumCallers == 2
MaxClock == 3
MaxBodySteps == 1

Holders == 1..NumHolders

\* The holders that call withSemaphore.
Callers == 1..NumCallers

\* SEMAPHORE_TTL (30 s), in the model's time unit of 15 s, and the
\* heartbeat interval SEMAPHORE_TTL / 2 that withSemaphore passes.
SEMAPHORE_TTL == 2

HeartbeatInterval == SEMAPHORE_TTL \div 2

\* The lease set without the holders whose expires_at <= t.
LiveLeases(ls, t) == [h \in {x \in DOMAIN ls : ls[x] > t} |-> ls[h]]

\* scripts.semaphore.acquire: remove the expired holders; if fewer than
\* lim remain insert (holderId, t + ttl) and grant.
AcquireScript(ls, holderId, lim, ttl, t) ==
    LET live == LiveLeases(ls, t)
        removed == Cardinality(DOMAIN ls) - Cardinality(DOMAIN live)
    IN IF Cardinality(DOMAIN live) < lim
       THEN [granted |-> TRUE, leases |-> Put(live, holderId, t + ttl),
             count |-> Cardinality(DOMAIN live \cup {holderId}),
             removed |-> removed]
       ELSE [granted |-> FALSE, leases |-> live,
             count |-> Cardinality(DOMAIN live), removed |-> removed]

\* scripts.semaphore.heartbeat: extend the expiry iff the holder is still
\* a member.
HeartbeatScript(ls, holderId, ttl, t) ==
    IF holderId \in DOMAIN ls
    THEN [ok |-> TRUE, leases |-> Put(ls, holderId, t + ttl)]
    ELSE [ok |-> FALSE, leases |-> ls]

\* scripts.semaphore.release: remove the holder.
ReleaseScript(ls, holderId) == ClearAll(ls, {holderId})

\* acquire(teamId, holderId, limit): one call of the acquire script with
\* SEMAPHORE_TTL; `outcome` keeps the `granted` of the holder's last call.
acquireWith(h, lim, ttl) ==
    LET r == AcquireScript(leases, h, lim, ttl, clock)
    IN  /\ leases' = r.leases
        /\ sem' = [sem EXCEPT ![h].outcome =
                     IF r.granted THEN "granted" ELSE "denied"]
        /\ UNCHANGED <<clock, semLimit>>

acquireOverLimit(h) == acquireWith(h, semLimit + 1, SEMAPHORE_TTL)

acquire(h) == acquireWith(h, semLimit, SEMAPHORE_TTL)

\* heartbeat(teamId, holderId): one call of the heartbeat script with
\* SEMAPHORE_TTL.
heartbeat(h) ==
    /\ leases' = HeartbeatScript(leases, h, SEMAPHORE_TTL, clock).leases
    /\ UNCHANGED <<clock, sem, semLimit>>

\* release(teamId, holderId): one call of the release script.
release(h) ==
    /\ leases' = ReleaseScript(leases, h)
    /\ UNCHANGED <<clock, sem, semLimit>>

(***************************************************************************)
(* withSemaphore(teamId, holderId, limit, signal, timeoutMs, func), one    *)
(* call per holder.  pc follows the call, hb the heartbeat loop started by *)
(* startHeartbeat, body the promise of func(limited), which runs on its    *)
(* own once started.                                                       *)
(***************************************************************************)
IdleSem ==
    [pc |-> "idle", deadline |-> 0, wake |-> 0, aborted |-> FALSE,
     limited |-> FALSE, delay |-> 0,
     hb |-> "none", hbWake |-> 0, stopped |-> FALSE,
     body |-> "none", steps |-> 0, outcome |-> "none", released |-> FALSE]

\* base_delay_ms (25 ms) and max_delay_ms (250 ms) of the call of
\* acquireBlocking in withSemaphore, scaled down: the delay goes 4, 6, 9
\* and is capped at 12.
base_delay_ms == 4

max_delay_ms == 12

withSemaphore_callSelfHosted(h, timeoutMs, selfHosted) ==
    /\ sem[h].pc = "idle"
    /\ sem' = [sem EXCEPT ![h] =
                 IF selfHosted
                 THEN [@ EXCEPT !.pc = "bypass", !.body = "running"]
                 ELSE [@ EXCEPT !.pc = "acquire",
                                !.deadline = clock + timeoutMs,
                                !.delay = base_delay_ms]]
    /\ UNCHANGED <<leases, clock, semLimit>>

\* The call is made.  A self-hosted deployment with limit <= 1 runs func
\* without the semaphore; otherwise acquireBlocking computes its deadline.
withSemaphore_call(h, timeoutMs, selfHosted) ==
    /\ sem[h].pc = "idle"
    /\ sem' = [sem EXCEPT ![h] =
                 IF selfHosted /\ semLimit <= 1
                 THEN [@ EXCEPT !.pc = "bypass", !.body = "running"]
                 ELSE [@ EXCEPT !.pc = "acquire",
                                !.deadline = clock + timeoutMs,
                                !.delay = base_delay_ms]]
    /\ UNCHANGED <<leases, clock, semLimit>>

\* `deadline < Date.now()` at the top of the loop of acquireBlocking.
DeadlineReached(deadline, t) == deadline <= t

DeadlinePassed(deadline, t) == deadline < t

\* `delay = Math.min(options.max_delay_ms, Math.floor(delay * 1.5))`.
NextDelayUncapped(delay, max) == (3 * delay) \div 2

NextDelay(delay, max) ==
    IF (3 * delay) \div 2 < max THEN (3 * delay) \div 2 ELSE max

\* The values of `Math.floor(Math.random() * Math.max(1, Math.floor(delay /
\* 4)))`.
Jitters(delay) ==
    0..((IF delay \div 4 > 1 THEN delay \div 4 ELSE 1) - 1)

\* One pass of the do-while loop of acquireBlocking up to the script's
\* answer, with the lease ttl, the time the timer is set to (`sleep`, in
\* ticks of the clock; a time below one tick is 0) and the next value of
\* `delay`.  `deadline` and `delay` are locals of acquireBlocking and are
\* dropped when it returns or throws.  When granted, withSemaphore starts
\* the heartbeat loop and calls func(limited).
acquireBlocking_loop(h, ttl, sleep, next) ==
    /\ sem[h].pc = "acquire"
    /\ IF sem[h].aborted \/ DeadlinePassed(sem[h].deadline, clock)
       THEN /\ sem' = [sem EXCEPT ![h].pc = "done", ![h].deadline = 0,
                                 ![h].delay = 0,
                                 ![h].outcome = "timeout"]
            /\ UNCHANGED leases
       ELSE LET r == AcquireScript(leases, h, semLimit, ttl, clock)
            IN  /\ leases' = r.leases
                /\ sem' = [sem EXCEPT ![h] =
                             IF r.granted
                             THEN [@ EXCEPT !.pc = "holding", !.deadline = 0,
                                            !.delay = 0,
                                            !.hb = "beat",
                                            !.body = "running"]
                             ELSE [@ EXCEPT !.pc = "backoff",
                                            !.wake = IF sleep = 0 THEN 0
                                                     ELSE clock + sleep,
                                            !.delay = next,
                                            !.limited = TRUE]]
    /\ UNCHANGED <<clock, semLimit>>

\* The pass on a clock too coarse, or a horizon too short, to tell the
\* delays apart: every timer is set to the same time.
acquireBlocking_pass(h, ttl, delay) ==
    acquireBlocking_loop(h, ttl, delay, sem[h].delay)

\* With the clock in units of SEMAPHORE_TTL / 2 the backoff delay (at most
\* 250 ms and its jitter) is below one tick.
acquireBlocking_attempt(h) == acquireBlocking_pass(h, SEMAPHORE_TTL, 0)

\* The backoff timer of acquireBlocking fires, on time or late.
acquireBlocking_wake(h) ==
    /\ sem[h].pc = "backoff"
    /\ clock >= sem[h].wake
    /\ sem' = [sem EXCEPT ![h].pc = "acquire", ![h].wake = 0]
    /\ UNCHANGED <<leases, clock, semLimit>>

\* The caller's AbortSignal fires.
signal_abort(h) ==
    /\ sem[h].pc \in {"acquire", "backoff", "holding"}
    /\ ~sem[h].aborted
    /\ sem' = [sem EXCEPT ![h].aborted = TRUE]
    /\ UNCHANGED <<leases, clock, semLimit>>

\* Promise.race settles and the finally block runs: the heartbeat loop is
\* told to stop and release is called.
Settled(s, outcome) ==
    IF s.pc = "holding"
    THEN [s EXCEPT !.pc = "release", !.stopped = TRUE, !.outcome = outcome]
    ELSE s

\* The heartbeat call of the loop of startHeartbeat.  A false answer
\* throws SCRAPE_TIMEOUT, which rejects the race unless it has settled.
heartbeat_loop(h, ttl) ==
    /\ sem[h].hb = "beat"
    /\ LET r == HeartbeatScript(leases, h, ttl, clock)
       IN  /\ leases' = r.leases
           /\ sem' = [sem EXCEPT ![h] =
                        IF r.ok
                        THEN [@ EXCEPT !.hb = "sleep",
                                       !.hbWake = clock + HeartbeatInterval]
                        ELSE Settled([@ EXCEPT !.hb = "failed"], "lost")]
    /\ UNCHANGED <<clock, semLimit>>

heartbeat_callDoubleTtl(h) == heartbeat_loop(h, 2 * SEMAPHORE_TTL)

heartbeat_call(h) == heartbeat_loop(h, SEMAPHORE_TTL)

\* The interval timer of the loop fires, on time or late, and the loop
\* tests `stopped`.
heartbeat_wake(h) ==
    /\ sem[h].hb = "sleep"
    /\ clock >= sem[h].hbWake
    /\ sem' = [sem EXCEPT ![h].hb = IF sem[h].stopped THEN "ended" ELSE "beat",
                          ![h].hbWake = 0]
    /\ UNCHANGED <<leases, clock, semLimit>>

\* func takes a step.  Nothing in withSemaphore stops the promise of func.
body_step(h) ==
    /\ sem[h].body = "running"
    /\ sem[h].steps < MaxBodySteps
    /\ sem' = [sem EXCEPT ![h].steps = @ + 1]
    /\ UNCHANGED <<leases, clock, semLimit>>

\* func returns or throws.
body_finish(h, how) ==
    /\ sem[h].body = "running"
    /\ sem' = [sem EXCEPT ![h] =
                 IF @.pc = "bypass"
                 THEN [@ EXCEPT !.body = how, !.pc = "done", !.outcome = how]
                 ELSE Settled([@ EXCEPT !.body = how], how)]
    /\ UNCHANGED <<leases, clock, semLimit>>

release_callNoScript(h, ok) ==
    /\ sem[h].pc = "release"
    /\ sem' = [sem EXCEPT ![h].pc = "done", ![h].released = ok]
    /\ UNCHANGED <<leases, clock, semLimit>>

\* release(teamId, holderId) in the finally block; a failure of the call
\* is swallowed by .catch(() => {}).
release_call(h, ok) ==
    /\ sem[h].pc = "release"
    /\ leases' = IF ok THEN ReleaseScript(leases, h) ELSE leases
    /\ sem' = [sem EXCEPT ![h].pc = "done", ![h].released = ok]
    /\ UNCHANGED <<clock, semLimit>>

\* The holder's process dies while it holds the lease: no heartbeat, no
\* release, no further step of func.
crash(h) ==
    /\ sem[h].pc = "holding"
    /\ sem' = [sem EXCEPT ![h].pc = "crashed", ![h].hb = "none",
                          ![h].body = "none"]
    /\ UNCHANGED <<leases, clock, semLimit>>

ClockTick ==
    /\ clock < MaxClock
    /\ clock' = clock + 1
    /\ UNCHANGED <<leases, sem, semLimit>>


(***************************************************************************)
(* The circuit breaker: checkCircuit, recordSuccess, recordFailure, and    *)
(* the exported operations as calls of one store transaction each.  Time   *)
(* is `now` in ticks of 2.5 s.                                             *)
(***************************************************************************)
NumCircuitCallers == 2
MaxCircuitTime == 5
MaxFailures == 4

CircuitCallers == 1..NumCircuitCallers

\* CIRCUIT_OPEN_DURATION_MS (5000 ms), in ticks.
CIRCUIT_OPEN_DURATION_MS == 2

CIRCUIT_FAILURE_THRESHOLD == 3

\* The exported operations that call the store, and those whose body
\* starts with checkCircuit() and records its outcome.
Operations ==
    {"pushJob", "popNextJob", "pushActiveJob", "removeActiveJob",
     "pushCrawlActiveJob", "removeCrawlActiveJob",
     "getTeamQueueCount", "cleanExpiredJobs", "reconcileTeamQueueCounter"}

GuardedOperations ==
    {"pushJob", "popNextJob", "pushActiveJob", "removeActiveJob",
     "pushCrawlActiveJob", "removeCrawlActiveJob"}

ClosedCircuit == [state |-> "closed", openedAt |-> 0, failures |-> 0]

IdleCall == [pc |-> "idle", op |-> "none", probe |-> FALSE, last |-> "none"]

CircuitInit ==
    /\ circuit = ClosedCircuit
    /\ calls = [c \in CircuitCallers |-> IdleCall]
    /\ chist = [streak |-> 0, openedFirst |-> 0]

\* checkCircuit(): the state it leaves and whether it throws
\* FDBCircuitOpenError.
checkCircuit(cs, t) ==
    IF cs.state = "open"
    THEN IF t - cs.openedAt >= CIRCUIT_OPEN_DURATION_MS
         THEN [circuit |-> [cs EXCEPT !.state = "half-open"], threw |-> FALSE]
         ELSE [circuit |-> cs, threw |-> TRUE]
    ELSE [circuit |-> cs, threw |-> FALSE]

recordSuccess(cs) ==
    IF cs.state = "half-open"
    THEN [cs EXCEPT !.state = "closed", !.failures = 0]
    ELSE IF cs.state = "closed"
         THEN [cs EXCEPT !.failures = 0]
         ELSE cs

recordFailureAboveThreshold(cs, t) ==
    LET n == cs.failures + 1
    IN  IF cs.state = "half-open"
        THEN [state |-> "open", openedAt |-> t, failures |-> n]
        ELSE IF n > CIRCUIT_FAILURE_THRESHOLD
             THEN [state |-> "open", openedAt |-> t, failures |-> n]
             ELSE [cs EXCEPT !.failures = n]

recordFailure(cs, t) ==
    LET n == cs.failures + 1
    IN  IF cs.state = "half-open"
        THEN [state |-> "open", openedAt |-> t, failures |-> n]
        ELSE IF n >= CIRCUIT_FAILURE_THRESHOLD
             THEN [state |-> "open", openedAt |-> t, failures |-> n]
             ELSE [cs EXCEPT !.failures = n]

\* The history kept beside the breaker.
Opened(cs, after) == cs.state # "open" /\ after.state = "open"

AfterRecord(h, cs, after, ok, t) ==
    [streak |-> IF ok THEN 0 ELSE h.streak + 1,
     openedFirst |-> IF Opened(cs, after) THEN t ELSE h.openedFirst]

\* A caller enters an exported operation.  A guarded one runs
\* checkCircuit() first and goes on to its store transaction unless that
\* throws; the others go to the store directly.
operation_begin(c, op) ==
    /\ calls[c].pc = "idle"
    /\ IF op \in GuardedOperations
       THEN LET r == checkCircuit(circuit, now)
            IN  /\ circuit' = r.circuit
                /\ calls' = [calls EXCEPT ![c] =
                     IF r.threw
                     THEN [IdleCall EXCEPT !.last = "circuit-open"]
                     ELSE [pc |-> "store", op |-> op,
                           probe |-> circuit.state = "open",
                           last |-> "none"]]
       ELSE /\ circuit' = circuit
            /\ calls' = [calls EXCEPT ![c] =
                           [pc |-> "store", op |-> op, probe |-> FALSE,
                            last |-> "none"]]
    /\ UNCHANGED <<chist, storeVars, now, procVars, histVars, semVars,
                   claimVars, cancel, sweepB, testVars>>

\* The store transaction of the call commits (ok) or fails.  A guarded
\* operation records the outcome and rethrows a failure; the others only
\* return or throw.
operation_end(c, ok) ==
    /\ calls[c].pc = "store"
    /\ ok \/ circuit.failures < MaxFailures
    /\ calls' = [calls EXCEPT ![c] =
                   [IdleCall EXCEPT !.last = IF ok THEN "ok" ELSE "failed"]]
    /\ IF calls[c].op \in GuardedOperations
       THEN \E after \in {IF ok THEN recordSuccess(circuit)
                                ELSE recordFailure(circuit, now)} :
                /\ circuit' = after
                /\ chist' = AfterRecord(chist, circuit, after, ok, now)
       ELSE UNCHANGED <<circuit, chist>>
    /\ UNCHANGED <<storeVars, now, procVars, histVars, semVars, claimVars,
                   cancel, sweepB, testVars>>

CircuitTick ==
    /\ now < MaxCircuitTime
    /\ now' = now + 1
    /\ UNCHANGED <<storeVars, procVars, histVars, semVars, circuitVars,
                   claimVars, cancel, sweepB, testVars>>


(***************************************************************************)
(* The system: callers of the operations, each step one transaction or one *)
(* read of the code.                                                       *)
(***************************************************************************)
EmptyStore == [k \in {} |-> 0]

\* No lease is held and no withSemaphore call has been made; the callers
\* will pass the limit n.
SemInit(n) ==
    /\ leases = EmptyStore
    /\ clock = 0
    /\ sem = [h \in Holders |-> IdleSem]
    /\ semLimit = n

(***************************************************************************)
(* removeJobsForCrawl(crawlId): cancellation of a crawl, one transaction   *)
(* per batch of the crawl index.                                           *)
(***************************************************************************)
\* The batch of one transaction (100 index entries in the code).
CANCEL_BATCH == 2

IdleCancel == [pc |-> "idle", crawlId |-> Undefined, removed |-> 0]

\* The index entries one transaction reads: getRangeAll over the crawl
\* index of the crawl, at most one batch.
CancelScan(crawlId) ==
    GetRangeAll(CrawlIndexKeys, RecordsStart("crawl", crawlId),
                RangeEnd(RecordsStart("crawl", crawlId)), CANCEL_BATCH)

removeJobsForCrawl_begin(crawlId) ==
    /\ cancel.pc = "idle"
    /\ ~checkCircuit(circuit, now).threw
    /\ circuit' = checkCircuit(circuit, now).circuit
    /\ cancel' = [IdleCancel EXCEPT !.pc = "batch", !.crawlId = crawlId]
    /\ UNCHANGED <<queue, crawlIdx, counters>>

\* One transaction: for every index entry read, clear the queue entry and
\* the index entry and add -1 to the team and the crawl counter.
removeJobsForCrawl_batch ==
    /\ cancel.pc = "batch"
    /\ LET e == CancelScan(cancel.crawlId)
           entries == {e[i] : i \in 1..Len(e)}
           perTeam == [t \in Teams |->
                         -Cardinality({k \in entries : crawlIdx[k].teamId = t})]
           withTeams == AddEach(counters, "team", Teams, perTeam)
       IN  /\ queue' = ClearAll(queue,
                  {<<crawlIdx[k].teamId, crawlIdx[k].priority,
                     crawlIdx[k].createdAt, k[2]>> : k \in entries})
           /\ crawlIdx' = ClearAll(crawlIdx, entries)
           /\ counters' =
                IF entries = {} THEN counters
                ELSE AtomicAdd(withTeams, <<"crawl", cancel.crawlId>>,
                               -Len(e))
           /\ cancel' = [cancel EXCEPT
                           !.removed = @ + Len(e),
                           !.pc = IF Len(e) < CANCEL_BATCH THEN "done"
                                  ELSE "batch"]
    /\ circuit' = recordSuccess(circuit)

(***************************************************************************)
(* pop and release of the queue service: the claim arbiter.  A pop         *)
(* enumerates the team's candidates in key order, writes a claim record    *)
(* under a fresh versionstamp, wins if its record has the least            *)
(* versionstamp of the job, and commits by removing the queue entry.       *)
(***************************************************************************)
IdleArb ==
    [pc |-> "idle", cands |-> <<>>, vs |-> 0, key |-> <<>>,
     result |-> "none"]

ClaimInit ==
    /\ claimRecs = EmptyStore
    /\ arb = [w \in Workers |-> IdleArb]
    /\ vstamp = 0

ClaimsOf(jobId) == {k \in DOMAIN claimRecs : k[1] = jobId}

\* The pop goes on to its next candidate, or answers "none available".
NextCandidate(a) ==
    IF Len(a.cands) > 1
    THEN [a EXCEPT !.pc = "claim", !.cands = Tail(a.cands), !.vs = 0]
    ELSE [IdleArb EXCEPT !.pc = "done"]

\* enumerate_candidates(team_id, limit).
arbiter_discover(w, teamId) ==
    /\ arb[w].pc = "idle"
    /\ LET cands == SortKeys({k \in DOMAIN queue : k[1] = teamId}, QueueKeys)
       IN  arb' = [arb EXCEPT ![w] =
                     IF cands = <<>>
                     THEN [IdleArb EXCEPT !.pc = "done"]
                     ELSE [IdleArb EXCEPT !.pc = "claim", !.cands = cands]]
    /\ UNCHANGED <<claimRecs, vstamp>>

\* Claim attempt: confirm the candidate exists and write a claim record
\* under the versionstamp of the commit.
arbiter_claim(w) ==
    /\ arb[w].pc = "claim"
    /\ LET key == Head(arb[w].cands)
       IN  IF key \in DOMAIN queue
           THEN /\ vstamp' = vstamp + 1
                /\ claimRecs' = Put(claimRecs, <<key[4], vstamp + 1>>,
                                    [workerId |-> w, queueKey |-> key])
                /\ arb' = [arb EXCEPT ![w].pc = "arbitrate",
                                      ![w].vs = vstamp + 1]
           ELSE /\ arb' = [arb EXCEPT ![w] = NextCandidate(@)]
                /\ UNCHANGED <<claimRecs, vstamp>>

\* Arbitration: the record with the least versionstamp of the job wins.
arbiter_arbitrate(w) ==
    /\ arb[w].pc = "arbitrate"
    /\ LET key == Head(arb[w].cands)
           won == \A k \in ClaimsOf(key[4]) : arb[w].vs <= k[2]
       IN  arb' = [arb EXCEPT ![w] =
                     IF won THEN [@ EXCEPT !.pc = "commit"]
                     ELSE NextCandidate(@)]
    /\ UNCHANGED <<claimRecs, vstamp>>

\* Commit of the pop (remove): delete the queue entry, decrement the team
\* counter, delete the other claim records of the job, return the job.
arbiter_commit(w) ==
    /\ arb[w].pc = "commit"
    /\ LET key == Head(arb[w].cands)
       IN  IF key \in DOMAIN queue
           THEN /\ queue' = ClearAll(queue, {key})
                /\ counters' = AtomicAdd(counters, <<"team", key[1]>>, -1)
                /\ claimRecs' = ClearAll(claimRecs,
                                    ClaimsOf(key[4]) \ {<<key[4], arb[w].vs>>})
                /\ arb' = [arb EXCEPT ![w] =
                             [IdleArb EXCEPT !.pc = "claimed", !.key = key,
                                             !.vs = arb[w].vs,
                                             !.result = "job"]]
           ELSE /\ arb' = [arb EXCEPT ![w] = NextCandidate(@)]
                /\ UNCHANGED <<queue, counters, claimRecs>>
    /\ UNCHANGED vstamp

\* release(job_id): delete the outstanding claim records of the job; the
\* queue subspace is not written.
arbiter_release(w) ==
    /\ arb[w].pc = "claimed"
    /\ claimRecs' = ClearAll(claimRecs, ClaimsOf(arb[w].key[4]))
    /\ arb' = [arb EXCEPT ![w].pc = "released"]
    /\ UNCHANGED vstamp

(***************************************************************************)
(* The CorrectnessChecker of the stress test.  `records` is the heap of    *)
(* JobLifecycleRecord objects (their `state`); jobRegistry and             *)
(* inFlightJobs map a job id to an object of the heap, so that two maps    *)
(* can hold the same object or different ones.                             *)
(***************************************************************************)
NumStressJobs == 2

StressJobs == 1..NumStressJobs

NewChecker ==
    [pendingPushes |-> {}, jobRegistry |-> EmptyStore,
     inFlightJobs |-> EmptyStore, claimedJobIds |-> {}, records |-> <<>>,
     violations |-> {}]

\* recordViolation: the violations as pairs of type and job id.
recordViolation(c, type, jobId) ==
    [c EXCEPT !.violations = @ \cup {<<type, jobId>>}]

\* recordPush(jobId, ...), called before the HTTP request.
recordPush(c, jobId) == [c EXCEPT !.pendingPushes = @ \cup {jobId}]

\* confirmPush(record): jobRegistry.set(jobId, a new record in state
\* 'pushed').
confirmPush(c, jobId) ==
    [c EXCEPT !.pendingPushes = @ \ {jobId},
              !.records = Append(@, "pushed"),
              !.jobRegistry = Put(@, jobId, Len(c.records) + 1)]

\* recordClaim(claimedJob, poppingTeamId) for a job whose team, priority,
\* crawl id and data are those of its push (checks 4 to 7 find nothing).
recordClaim(c, jobId) ==
    LET c1 == IF jobId \in c.claimedJobIds
              THEN recordViolation(c, "duplicate_claim", jobId)
              ELSE c
        c2 == [c1 EXCEPT !.claimedJobIds = @ \cup {jobId}]
        c3 == IF jobId \in c2.pendingPushes THEN confirmPush(c2, jobId)
              ELSE c2
    IN  IF jobId \notin DOMAIN c3.jobRegistry
        THEN [recordViolation(c3, "orphan_claim", jobId) EXCEPT
                !.records = Append(@, "claimed"),
                !.inFlightJobs = Put(@, jobId, Len(c3.records) + 1)]
        ELSE [c3 EXCEPT
                !.records[c3.jobRegistry[jobId]] = "claimed",
                !.inFlightJobs = Put(@, jobId, c3.jobRegistry[jobId])]

\* recordComplete(jobId).
recordComplete(c, jobId) ==
    LET c1 == IF jobId \in DOMAIN c.inFlightJobs
              THEN [c EXCEPT
                      !.records[c.inFlightJobs[jobId]] = "completed",
                      !.inFlightJobs = ClearAll(@, {jobId})]
              ELSE c
    IN  IF jobId \in DOMAIN c1.jobRegistry
        THEN [c1 EXCEPT !.records[c1.jobRegistry[jobId]] = "completed"]
        ELSE c1

\* runEndOfTestVerification().
runEndOfTestVerification(c) ==
    [c EXCEPT !.violations =
        @ \cup {<<"lost_job", j>> :
                  j \in {x \in DOMAIN c.jobRegistry :
                           c.records[c.jobRegistry[x]] = "pushed"}}
          \cup {<<"incomplete_job", j>> : j \in DOMAIN c.inFlightJobs}]

\* The test: a pusher calls recordPush, sends the request and calls
\* confirmPush when the response is a success; a worker calls recordClaim
\* for the job a pop returned and recordComplete when it has processed it.
NewHarness ==
    [push |-> [j \in StressJobs |-> "none"], claimed |-> {},
     completed |-> {}, verified |-> FALSE]

TestInit == checker = NewChecker /\ harness = NewHarness

pusher_send(j) ==
    /\ ~harness.verified
    /\ harness.push[j] = "none"
    /\ checker' = recordPush(checker, j)
    /\ harness' = [harness EXCEPT !.push[j] = "sent"]

\* The response of the push arrives.
pusher_response(j, ok) ==
    /\ ~harness.verified
    /\ harness.push[j] = "sent"
    /\ checker' = IF ok THEN confirmPush(checker, j) ELSE checker
    /\ harness' = [harness EXCEPT
                     !.push[j] = IF ok THEN "confirmed" ELSE "failed"]

\* A pop returns the job, which the service has stored: its push request
\* was sent, its response may still be on the way.
worker_claim(j) ==
    /\ ~harness.verified
    /\ harness.push[j] \in {"sent", "confirmed"}
    /\ j \notin harness.claimed
    /\ checker' = recordClaim(checker, j)
    /\ harness' = [harness EXCEPT !.claimed = @ \cup {j}]

worker_complete(j) ==
    /\ ~harness.verified
    /\ j \in harness.claimed \ harness.completed
    /\ checker' = recordComplete(checker, j)
    /\ harness' = [harness EXCEPT !.completed = @ \cup {j}]

\* The test ends when every response has arrived.
test_end ==
    /\ ~harness.verified
    /\ \A j \in StressJobs : harness.push[j] # "sent"
    /\ checker' = runEndOfTestVerification(checker)
    /\ harness' = [harness EXCEPT !.verified = TRUE]

QueueInit ==
    /\ queue = EmptyStore
    /\ crawlIdx = EmptyStore
    /\ ttlIdx = EmptyStore
    /\ counters = EmptyStore
    /\ active = EmptyStore
    /\ activeCrawl = EmptyStore
    /\ now = 0
    /\ pop = [w \in Workers |-> IdlePop]
    /\ sweep = IdleSweep
    /\ asweep = IdleASweep
    /\ rec = IdleRec
    /\ stale = IdleStale
    /\ nPushed = 0
    /\ nActive = 0
    /\ pushed = EmptyBag
    /\ returned = <<>>
    /\ phase = "load"
    /\ CircuitInit
    /\ ClaimInit
    /\ cancel = IdleCancel
    /\ sweepB = IdleSweep
    /\ TestInit

Init == QueueInit /\ SemInit(1)

\* A caller of pushJob.
Push(teamId, id, data, priority, timeout, crawlId) ==
    /\ nPushed < MaxPushes
    /\ phase = "load"
    /\ pushJob(teamId, id, data, priority, timeout, crawlId)
    /\ rec' = Touch(rec)
    /\ UNCHANGED <<active, activeCrawl, now, pop, sweep, asweep, stale, nActive,
                   returned, phase>>
    /\ UNCHANGED <<semVars, circuitVars, claimVars, cancel, sweepB, testVars>>

\* Time passes.
Tick ==
    /\ now < MaxTime
    /\ now' = now + 1
    /\ UNCHANGED <<storeVars, procVars, histVars>>
    /\ UNCHANGED <<semVars, circuitVars, claimVars, cancel, sweepB, testVars>>

PopBegin(w, teamId, hasChecker) ==
    /\ phase = "load"
    /\ popNextJob_begin(w, teamId, hasChecker)
    /\ UNCHANGED <<storeVars, now, sweep, asweep, rec, stale, histVars>>
    /\ UNCHANGED <<semVars, circuitVars, claimVars, cancel, sweepB, testVars>>

PopAttempt(w) ==
    /\ pop[w].pc \in {"scan", "remove"}
    /\ popNextJob_attempt(w)
    /\ rec' = IF pop[w].pc = "remove" THEN Touch(rec) ELSE rec
    /\ UNCHANGED <<now, sweep, asweep, stale, nPushed, nActive, pushed, phase>>
    /\ UNCHANGED <<semVars, circuitVars, claimVars, cancel, sweepB, testVars>>

SweepBegin ==
    /\ cleanExpiredJobs_begin
    /\ UNCHANGED <<storeVars, now, pop, asweep, rec, stale, histVars>>
    /\ UNCHANGED <<semVars, circuitVars, claimVars, cancel, sweepB, testVars>>

SweepBatch ==
    /\ cleanExpiredJobs_batch
    /\ rec' = Touch(rec)
    /\ UNCHANGED <<now, pop, asweep, stale, histVars>>
    /\ UNCHANGED <<semVars, circuitVars, claimVars, cancel, sweepB, testVars>>

ActiveSweepBegin ==
    /\ cleanExpiredActiveJobs_begin
    /\ UNCHANGED <<storeVars, now, pop, sweep, rec, stale, histVars>>
    /\ UNCHANGED <<semVars, circuitVars, claimVars, cancel, sweepB, testVars>>

ActiveSweepBatch ==
    /\ cleanExpiredActiveJobs_batch
    /\ rec' = Touch(rec)
    /\ UNCHANGED <<now, pop, sweep, stale, histVars>>
    /\ UNCHANGED <<semVars, circuitVars, claimVars, cancel, sweepB, testVars>>

PushActive(teamId, jobId, timeout) ==
    /\ nActive < MaxActive
    /\ pushActiveJob(teamId, jobId, timeout)
    /\ nActive' = nActive + 1
    /\ rec' = Touch(rec)
    /\ UNCHANGED <<queue, crawlIdx, ttlIdx, activeCrawl, now, pop, sweep, asweep,
                   stale, nPushed, pushed, returned, phase>>
    /\ UNCHANGED <<semVars, circuitVars, claimVars, cancel, sweepB, testVars>>

RemoveActive(teamId, jobId) ==
    /\ removeActiveJob(teamId, jobId)
    /\ rec' = Touch(rec)
    /\ UNCHANGED <<queue, crawlIdx, ttlIdx, activeCrawl, now, pop, sweep, asweep,
                   stale, histVars>>
    /\ UNCHANGED <<semVars, circuitVars, claimVars, cancel, sweepB, testVars>>

PushCrawlActive(crawlId, jobId, timeout) ==
    /\ nActive < MaxActive
    /\ pushCrawlActiveJob(crawlId, jobId, timeout)
    /\ nActive' = nActive + 1
    /\ rec' = Touch(rec)
    /\ UNCHANGED <<queue, crawlIdx, ttlIdx, active, now, pop, sweep, asweep,
                   stale, nPushed, pushed, returned, phase>>
    /\ UNCHANGED <<semVars, circuitVars, claimVars, cancel, sweepB, testVars>>

RemoveCrawlActive(crawlId, jobId) ==
    /\ removeCrawlActiveJob(crawlId, jobId)
    /\ rec' = Touch(rec)
    /\ UNCHANGED <<queue, crawlIdx, ttlIdx, active, now, pop, sweep, asweep,
                   stale, histVars>>
    /\ UNCHANGED <<semVars, circuitVars, claimVars, cancel, sweepB, testVars>>

ReconcileBegin(kind, id) ==
    /\ reconcile_begin(kind, id)
    /\ UNCHANGED <<storeVars, now, pop, sweep, asweep, stale, histVars>>
    /\ UNCHANGED <<semVars, circuitVars, claimVars, cancel, sweepB, testVars>>

ReconcileStep ==
    /\ reconcile_step
    /\ UNCHANGED <<queue, crawlIdx, ttlIdx, active, activeCrawl, now, pop, sweep,
                   asweep, stale, histVars>>
    /\ UNCHANGED <<semVars, circuitVars, claimVars, cancel, sweepB, testVars>>

StaleBegin ==
    /\ cleanStaleCounters_begin
    /\ UNCHANGED <<storeVars, now, pop, sweep, asweep, rec, histVars>>
    /\ UNCHANGED <<semVars, circuitVars, claimVars, cancel, sweepB, testVars>>

StaleStep ==
    /\ cleanStaleCounters_step
    /\ rec' = IF stale.pc = "clear" THEN Touch(rec) ELSE rec
    /\ UNCHANGED <<queue, crawlIdx, ttlIdx, active, activeCrawl, now, pop, sweep,
                   asweep, histVars>>
    /\ UNCHANGED <<semVars, circuitVars, claimVars, cancel, sweepB, testVars>>

\* No operation is in progress.
Quiet ==
    /\ \A w \in Workers : pop[w].pc = "idle"
    /\ sweep.pc = "idle"
    /\ asweep.pc = "idle"
    /\ rec.pc \in {"idle", "done"}
    /\ stale.pc = "idle"

(***************************************************************************)
(* Spec: one team's producers, its popping workers and the TTL sweep,      *)
(* interleaved transaction by transaction.                                 *)
(***************************************************************************)
MaxRacePushes == 2

Next ==
    \/ \E d \in Payloads, p \in Priorities, to \in Timeouts :
            nPushed < MaxRacePushes /\ Push(1, 1, d, p, to, Undefined)
    \/ Tick
    \/ \E w \in Workers : PopBegin(w, 1, FALSE)
    \/ \E w \in Workers : PopAttempt(w)
    \/ SweepBegin
    \/ SweepBatch

Spec == Init /\ [][Next]_vars

(***************************************************************************)
(* SpecOps: every operation of the module, one call at a time, on one of   *)
(* two workloads: the job queue (phase "load") or the active-job records   *)
(* (phase "active").                                                       *)
(***************************************************************************)
MaxOpsPushes == 2

InitOps ==
    /\ queue = EmptyStore
    /\ crawlIdx = EmptyStore
    /\ ttlIdx = EmptyStore
    /\ counters = EmptyStore
    /\ active = EmptyStore
    /\ activeCrawl = EmptyStore
    /\ now = 0
    /\ pop = [w \in Workers |-> IdlePop]
    /\ sweep = IdleSweep
    /\ asweep = IdleASweep
    /\ rec = IdleRec
    /\ stale = IdleStale
    /\ nPushed = 0
    /\ nActive = 0
    /\ pushed = EmptyBag
    /\ returned = <<>>
    /\ phase \in {"load", "active"}
    /\ CircuitInit
    /\ ClaimInit
    /\ cancel = IdleCancel
    /\ sweepB = IdleSweep
    /\ TestInit
    /\ SemInit(1)

OnQueue == Quiet /\ phase = "load"

OnActive == Quiet /\ phase = "active"

NextOps ==
    \/ \E j \in {1, 2}, p \in Priorities, c \in Crawls \cup {Undefined},
          to \in Timeouts :
            OnQueue /\ nPushed < MaxOpsPushes /\ Push(1, j, 1, p, to, c)
    \/ Tick
    \/ \E t \in Teams, h \in BOOLEAN : OnQueue /\ PopBegin(1, t, h)
    \/ PopAttempt(1)
    \/ OnQueue /\ SweepBegin
    \/ SweepBatch
    \/ OnQueue /\ StaleBegin
    \/ StaleStep
    \/ \E j \in {1, 2}, to \in ActiveTimeouts : OnActive /\ PushActive(1, j, to)
    \/ \E j \in {1, 2} : OnActive /\ RemoveActive(1, j)
    \/ \E c \in Crawls, j \in {1, 2}, to \in ActiveTimeouts :
            OnActive /\ PushCrawlActive(c, j, to)
    \/ \E c \in Crawls, j \in {1, 2} : OnActive /\ RemoveCrawlActive(c, j)
    \/ OnActive /\ ActiveSweepBegin
    \/ ActiveSweepBatch
    \/ \E kind \in {"team", "crawl"} : OnQueue /\ ReconcileBegin(kind, 1)
    \/ \E kind \in {"activeTeam", "activeCrawl"} :
            OnActive /\ ReconcileBegin(kind, 1)
    \/ ReconcileStep

SpecOps == InitOps /\ [][NextOps]_vars

(***************************************************************************)
(* SpecDrain: jobs without timeout and without crawl are pushed to one     *)
(* team under distinct ids; then nothing more is pushed and every worker   *)
(* calls popNextJob again and again until it receives null.  SpecSeq is    *)
(* the same with a single worker, so that no two calls overlap.            *)
(***************************************************************************)
PushedIds == {j.id : j \in BagToSet(pushed)}

PushPlain(id, priority) ==
    /\ id \notin PushedIds
    /\ Push(1, id, id, priority, 0, Undefined)

StartDrain ==
    /\ phase = "load"
    /\ phase' = "drain"
    /\ UNCHANGED <<storeVars, now, procVars, nPushed, nActive, pushed, returned>>
    /\ UNCHANGED <<semVars, circuitVars, claimVars, cancel, sweepB, testVars>>

Stopped(w) == pop[w].pc = "idle" /\ pop[w].result = "null"

DrainPop(w) ==
    /\ phase = "drain"
    /\ ~Stopped(w)
    /\ popNextJob_begin(w, 1, FALSE)
    /\ UNCHANGED <<storeVars, now, sweep, asweep, rec, stale, histVars>>
    /\ UNCHANGED <<semVars, circuitVars, claimVars, cancel, sweepB, testVars>>

NextDrain ==
    \/ \E j \in JobIds, p \in Priorities : PushPlain(j, p)
    \/ Tick
    \/ StartDrain
    \/ \E w \in Workers : DrainPop(w)
    \/ \E w \in Workers : PopAttempt(w)

SpecDrain == Init /\ [][NextDrain]_vars

NextSeq ==
    \/ \E j \in JobIds, p \in Priorities : PushPlain(j, p)
    \/ Tick
    \/ StartDrain
    \/ DrainPop(1)
    \/ PopAttempt(1)

SpecSeq == Init /\ [][NextSeq]_vars

(***************************************************************************)
(* SpecCounters: the operations that write the queue counters of one team  *)
(* running concurrently, transaction by transaction: producers, a popping  *)
(* worker, the TTL sweep, a reconcile run and the stale-counter cleanup.   *)
(***************************************************************************)
NextCounters ==
    \/ \E to \in Timeouts :
            nPushed < MaxRacePushes /\ Push(1, 1, 1, 5, to, Undefined)
    \/ Tick
    \/ PopBegin(1, 1, FALSE)
    \/ PopAttempt(1)
    \/ SweepBegin
    \/ SweepBatch
    \/ ReconcileBegin("team", 1)
    \/ ReconcileStep
    \/ StaleBegin
    \/ StaleStep

SpecCounters == Init /\ [][NextCounters]_vars

(***************************************************************************)
(* SpecPush: producers call pushJob for two teams with and without a crawl *)
(* and with timeouts on both sides of the bounds of hasTimeout, while time *)
(* passes and the TTL sweep runs.                                          *)
(***************************************************************************)
PushTimeouts == {-1, 0, 1, MAX_SAFE_INTEGER}

NextPush ==
    \/ \E t \in Teams, j \in {1, 2}, p \in Priorities, to \in PushTimeouts,
          c \in Crawls \cup {Undefined} :
            nPushed < MaxRacePushes /\ Push(t, j, 1, p, to, c)
    \/ Tick
    \/ SweepBegin
    \/ SweepBatch

SpecPush == Init /\ [][NextPush]_vars

(***************************************************************************)
(* SpecActive: the active-job workload of SpecOps alone: pushes and        *)
(* removals of team and crawl records, their sweep and their reconcile     *)
(* runs, one call at a time.                                               *)
(***************************************************************************)
InitActive == InitOps /\ phase = "active"

NextActive ==
    \/ Tick
    \/ \E t \in Teams, j \in {1, 2}, to \in ActiveTimeouts :
            OnActive /\ PushActive(t, j, to)
    \/ \E t \in Teams, j \in {1, 2} : OnActive /\ RemoveActive(t, j)
    \/ \E c \in Crawls, j \in {1, 2}, to \in ActiveTimeouts :
            OnActive /\ PushCrawlActive(c, j, to)
    \/ \E c \in Crawls, j \in {1, 2} : OnActive /\ RemoveCrawlActive(c, j)
    \/ OnActive /\ ActiveSweepBegin
    \/ ActiveSweepBatch
    \/ \E kind \in {"activeTeam", "activeCrawl"} :
            OnActive /\ ReconcileBegin(kind, 1)
    \/ ReconcileStep

SpecActive == InitActive /\ [][NextActive]_vars

(***************************************************************************)
(* SpecSem: the holders of one team call withSemaphore with the same       *)
(* limit; script calls, timers, func, the abort signal, crashes and the    *)
(* clock interleave freely (a timer may fire late).                        *)
(***************************************************************************)
queueVars == <<storeVars, now, procVars, histVars, circuitVars, claimVars,
               cancel, sweepB, testVars>>

SemLimits == {1, 2}
SemTimeouts == {1, 3}

InitSem == QueueInit /\ \E n \in SemLimits : SemInit(n)

NextSem ==
    \/ \E h \in Callers, t \in SemTimeouts, sh \in BOOLEAN :
            withSemaphore_call(h, t, sh) /\ UNCHANGED queueVars
    \/ \E h \in Callers : acquireBlocking_attempt(h) /\ UNCHANGED queueVars
    \/ \E h \in Callers : acquireBlocking_wake(h) /\ UNCHANGED queueVars
    \/ \E h \in Callers : signal_abort(h) /\ UNCHANGED queueVars
    \/ \E h \in Callers : heartbeat_call(h) /\ UNCHANGED queueVars
    \/ \E h \in Callers : heartbeat_wake(h) /\ UNCHANGED queueVars
    \/ \E h \in Callers : body_step(h) /\ UNCHANGED queueVars
    \/ \E h \in Callers, how \in {"returned", "threw"} :
            body_finish(h, how) /\ UNCHANGED queueVars
    \/ \E h \in Callers, ok \in BOOLEAN :
            release_call(h, ok) /\ UNCHANGED queueVars
    \/ \E h \in Callers : crash(h) /\ UNCHANGED queueVars
    \/ ClockTick /\ UNCHANGED queueVars

SpecSem == InitSem /\ [][NextSem]_vars

\* The lease set of one team under every interleaving of acquire,
\* heartbeat and release calls by the holders and the passing of time.
NextLease ==
    \/ \E h \in Holders : acquire(h) /\ UNCHANGED queueVars
    \/ \E h \in Holders : heartbeat(h) /\ UNCHANGED queueVars
    \/ \E h \in Holders : release(h) /\ UNCHANGED queueVars
    \/ ClockTick /\ UNCHANGED queueVars

SpecLease == InitSem /\ [][NextLease]_vars

(***************************************************************************)
(* acquireBlocking under contention, on a clock of 125 ms ticks: every     *)
(* holder calls withSemaphore at time 0, a denied caller polls again when  *)
(* its backoff timer is due, and a granted body returns within HoldTicks.  *)
(* Timers fire when due and store calls take no time.  The heartbeat loop  *)
(* is left out: its first timer (SEMAPHORE_TTL / 2) lies beyond the        *)
(* horizon and no lease comes near its expiry.                             *)
(***************************************************************************)
HoldTicks == 2

\* max_delay_ms (250 ms), the delay the backoff settles at.
BackoffTicks == 2

\* SEMAPHORE_TTL (30 s) in ticks.
FineTtl == 240

\* The number of holders that can be granted ahead of one caller, in
\* groups of lim, and the time their bodies take.
Rounds(lim) == (NumHolders - 1 + lim - 1) \div lim

HoldingAhead == Rounds(semLimit) * HoldTicks

\* Holding time ahead and one backoff delay for each hand-over.
HandOverAhead == Rounds(semLimit) * (HoldTicks + BackoffTicks)

FairTimeouts == {1, HoldingAhead + 1, HandOverAhead}

FairHorizon == HandOverAhead + HoldTicks + BackoffTicks + 1

acquireBlocking_poll(h) == acquireBlocking_pass(h, FineTtl, BackoffTicks)

\* Time passes when nothing is due: no call waits to be made or answered,
\* no backoff timer is due, no body has used up HoldTicks.  A running body
\* takes one step per tick.
FairTick ==
    /\ clock < FairHorizon
    /\ \A h \in Holders :
        /\ sem[h].pc \notin {"idle", "acquire", "release"}
        /\ sem[h].pc = "backoff" => sem[h].wake > clock
        /\ sem[h].pc = "holding" => sem[h].steps < HoldTicks
    /\ clock' = clock + 1
    /\ sem' = [h \in Holders |->
                 IF sem[h].pc = "holding"
                 THEN [sem[h] EXCEPT !.steps = @ + 1]
                 ELSE sem[h]]
    /\ UNCHANGED <<leases, semLimit>>

NextFair ==
    \/ \E h \in Holders, t \in FairTimeouts :
            withSemaphore_call(h, t, FALSE) /\ UNCHANGED queueVars
    \/ \E h \in Holders : acquireBlocking_poll(h) /\ UNCHANGED queueVars
    \/ \E h \in Holders : acquireBlocking_wake(h) /\ UNCHANGED queueVars
    \/ \E h \in Holders : body_finish(h, "returned") /\ UNCHANGED queueVars
    \/ \E h \in Holders : release_call(h, TRUE) /\ UNCHANGED queueVars
    \/ FairTick /\ UNCHANGED queueVars

\* The event loop runs every callback that is ready.
SpecFair == InitSem /\ [][NextFair]_vars /\ WF_vars(NextFair)

(***************************************************************************)
(* The circuit breaker under concurrent callers of the exported            *)
(* operations, with store transactions that commit or fail.                *)
(***************************************************************************)
NextCircuit ==
    \/ \E c \in CircuitCallers, op \in Operations : operation_begin(c, op)
    \/ \E c \in CircuitCallers, ok \in BOOLEAN : operation_end(c, ok)
    \/ CircuitTick

SpecCircuit == Init /\ [][NextCircuit]_vars

(***************************************************************************)
(* Workers that pop through the claim arbiter and release what they won,   *)
(* on a team queue of jobs without crawl and without timeout.              *)
(***************************************************************************)
NextClaims ==
    \/ \E id \in JobIds, p \in Priorities :
            nPushed < MaxRacePushes /\ PushPlain(id, p)
    \/ \E w \in Workers :
            /\ arbiter_discover(w, 1)
            /\ UNCHANGED <<storeVars, now, procVars, histVars, semVars,
                           circuitVars, cancel, sweepB, testVars>>
    \/ \E w \in Workers :
            /\ arbiter_claim(w)
            /\ UNCHANGED <<storeVars, now, procVars, histVars, semVars,
                           circuitVars, cancel, sweepB, testVars>>
    \/ \E w \in Workers :
            /\ arbiter_arbitrate(w)
            /\ UNCHANGED <<storeVars, now, procVars, histVars, semVars,
                           circuitVars, cancel, sweepB, testVars>>
    \/ \E w \in Workers :
            /\ arbiter_commit(w)
            /\ UNCHANGED <<crawlIdx, ttlIdx, active, activeCrawl, now,
                           procVars, histVars, semVars, circuitVars, cancel, sweepB, testVars>>
    \/ \E w \in Workers :
            /\ arbiter_release(w)
            /\ UNCHANGED <<storeVars, now, procVars, histVars, semVars,
                           circuitVars, cancel, sweepB, testVars>>

SpecClaims == Init /\ [][NextClaims]_vars

(***************************************************************************)
(* SpecCancel: producers push jobs of two crawls for two teams under       *)
(* distinct ids; then one crawl is cancelled, batch by batch, and nothing  *)
(* is pushed from the start of the cancellation on.                        *)
(***************************************************************************)
CancelCrawls == {1, 2}

CancelBegin(crawlId) ==
    /\ removeJobsForCrawl_begin(crawlId)
    /\ UNCHANGED <<ttlIdx, active, activeCrawl, now, procVars, histVars,
                   semVars, calls, chist, claimVars, sweepB, testVars>>

CancelBatch ==
    /\ removeJobsForCrawl_batch
    /\ UNCHANGED <<ttlIdx, active, activeCrawl, now, procVars, histVars,
                   semVars, calls, chist, claimVars, sweepB, testVars>>

NextCancel ==
    \/ \E t \in Teams, j \in JobIds, p \in Priorities, c \in CancelCrawls :
            /\ cancel.pc = "idle"
            /\ j \notin {x.id : x \in BagToSet(pushed)}
            /\ Push(t, j, j, p, 0, c)
    \/ \E c \in CancelCrawls : CancelBegin(c)
    \/ CancelBatch

SpecCancel == Init /\ [][NextCancel]_vars

(***************************************************************************)
(* SpecSelect: phases 2 and 3 of popNextJob on their input.  The candidate *)
(* list handed to phase 2 is drawn from the lists a scan of the team's     *)
(* queue is meant to deliver: the team's entries in key order, up to the   *)
(* scan limit.  A worker calls popNextJob with and without a checker on a  *)
(* queue of jobs with and without crawl and timeout; jobs are pushed and   *)
(* time passes between the calls.                                          *)
(***************************************************************************)
EntriesInOrder(teamId) ==
    LET keys == SortKeys({k \in DOMAIN queue : k[1] = teamId}, QueueKeys)
        n == IF Len(keys) < SCAN_LIMIT THEN Len(keys) ELSE SCAN_LIMIT
    IN [i \in 1..n |-> [key |-> keys[i], job |-> Parse(queue[keys[i]])]]

SelectScanned(w) ==
    /\ pop[w].pc = "scan"
    /\ popNextJob_scanned(w, EntriesInOrder(pop[w].teamId))
    /\ UNCHANGED <<now, sweep, asweep, rec, stale, nPushed, nActive, pushed,
                   phase>>
    /\ UNCHANGED <<semVars, circuitVars, claimVars, cancel, sweepB, testVars>>

SelectRemove(w) ==
    /\ pop[w].pc = "remove"
    /\ PopAttempt(w)

NextSelect ==
    \/ \E j \in JobIds, p \in Priorities, to \in Timeouts,
          c \in Crawls \cup {Undefined} :
            /\ Quiet
            /\ nPushed < MaxRacePushes
            /\ j \notin {x.id : x \in BagToSet(pushed)}
            /\ Push(1, j, j, p, to, c)
    \/ Quiet /\ Tick
    \/ \E h \in BOOLEAN : PopBegin(1, 1, h)
    \/ SelectScanned(1)
    \/ SelectRemove(1)

SpecSelect == Init /\ [][NextSelect]_vars

(***************************************************************************)
(* SpecSweeps: two janitor replicas run cleanExpiredJobs at the same time  *)
(* as two workers pop, while jobs with a timeout are pushed and time       *)
(* passes.                                                                 *)
(***************************************************************************)
ReplicaSweepBegin ==
    /\ sweepB.pc = "idle"
    /\ sweepB' = [IdleSweep EXCEPT !.pc = "batch", !.now = now,
                                   !.result = sweepB.result,
                                   !.overlap = sweep.pc = "batch"]
    /\ UNCHANGED <<storeVars, now, procVars, histVars, semVars, circuitVars,
                   claimVars, cancel, testVars>>

ReplicaSweepBatch ==
    /\ sweepB.pc = "batch"
    /\ cleanExpiredJobs_transaction(sweepB.now)
    /\ sweepB' = AfterSweepBatch(sweepB,
                     Len(ExpiredTTLKeys(sweepB.now, SWEEP_BATCH)))
    /\ rec' = Touch(rec)
    /\ UNCHANGED <<now, pop, sweep, asweep, stale, histVars, semVars,
                   circuitVars, claimVars, cancel, testVars>>

NextSweeps ==
    \/ \E d \in Payloads, p \in Priorities, to \in Timeouts :
            nPushed < MaxRacePushes /\ Push(1, 1, d, p, to, Undefined)
    \/ Tick
    \/ PopBegin(1, 1, FALSE)
    \/ PopAttempt(1)
    \/ SweepBegin
    \/ SweepBatch
    \/ ReplicaSweepBegin
    \/ ReplicaSweepBatch

SpecSweeps == Init /\ [][NextSweeps]_vars


(***************************************************************************)
(* The backoff of acquireBlocking on a clock fine enough for its delays:   *)
(* one caller of withSemaphore against the other holders of the team,      *)
(* which take their leases at time 0 and release them at any time.  The    *)
(* backoff timer fires when due or up to MaxLate ticks late.               *)
(***************************************************************************)
MaxLate == 1
MaxBackoffTimeout == 30

\* The caller of withSemaphore that is followed.
BackoffCaller == CHOOSE h \in Callers : \A k \in Callers : h <= k

BackoffTimeouts == {0, MaxBackoffTimeout}

\* SEMAPHORE_TTL (30 s) is 120 times max_delay_ms (250 ms).
BackoffTtl == 120 * max_delay_ms

\* The longest time a timer of acquireBlocking is set to once delay is
\* at most max_delay_ms.
MaxSleep == max_delay_ms + (CHOOSE j \in Jitters(max_delay_ms) :
                               \A k \in Jitters(max_delay_ms) : k <= j)

BackoffHorizon == MaxBackoffTimeout + MaxSleep + MaxLate + 1

acquireBlocking_backoff(h, jitter) ==
    /\ jitter \in Jitters(sem[h].delay)
    /\ acquireBlocking_loop(h, BackoffTtl, sem[h].delay + jitter,
                            NextDelay(sem[h].delay, max_delay_ms))

BackoffTick ==
    /\ clock < BackoffHorizon
    /\ sem[BackoffCaller].pc = "backoff"
           => clock < sem[BackoffCaller].wake + MaxLate
    /\ clock' = clock + 1
    /\ UNCHANGED <<leases, sem, semLimit>>

NextBackoff ==
    \/ \E t \in BackoffTimeouts :
            /\ clock = 0
            /\ withSemaphore_call(BackoffCaller, t, FALSE)
            /\ UNCHANGED queueVars
    \/ \E j \in 0..(MaxSleep - max_delay_ms + 1) :
            acquireBlocking_backoff(BackoffCaller, j) /\ UNCHANGED queueVars
    \/ acquireBlocking_wake(BackoffCaller) /\ UNCHANGED queueVars
    \/ signal_abort(BackoffCaller) /\ UNCHANGED queueVars
    \/ \E h \in Holders \ {BackoffCaller} :
            /\ clock = 0
            /\ h \notin DOMAIN leases
            /\ acquireWith(h, semLimit, BackoffTtl)
            /\ UNCHANGED queueVars
    \/ \E h \in Holders \ {BackoffCaller} :
            h \in DOMAIN leases /\ release(h) /\ UNCHANGED queueVars
    \/ BackoffTick /\ UNCHANGED queueVars

\* The script answers, the timer fires and time passes.
SpecBackoff ==
    /\ InitSem
    /\ [][NextBackoff]_vars
    /\ WF_vars(\E j \in 0..(MaxSleep - max_delay_ms + 1) :
                  acquireBlocking_backoff(BackoffCaller, j)
                  /\ UNCHANGED queueVars)
    /\ WF_vars(acquireBlocking_wake(BackoffCaller) /\ UNCHANGED queueVars)
    /\ WF_vars(BackoffTick /\ UNCHANGED queueVars)


(***************************************************************************)
(* The stress test: pushes, their responses, claims and completions of     *)
(* the jobs in every order the service allows, then the end-of-test        *)
(* verification.                                                           *)
(***************************************************************************)
testFrame == <<storeVars, now, procVars, histVars, semVars, circuitVars,
               claimVars, cancel, sweepB>>

NextTest ==
    \/ \E j \in StressJobs : pusher_send(j) /\ UNCHANGED testFrame
    \/ \E j \in StressJobs, ok \in BOOLEAN :
            pusher_response(j, ok) /\ UNCHANGED testFrame
    \/ \E j \in StressJobs : worker_claim(j) /\ UNCHANGED testFrame
    \/ \E j \in StressJobs : worker_complete(j) /\ UNCHANGED testFrame
    \/ test_end /\ UNCHANGED testFrame

SpecTest == Init /\ [][NextTest]_vars


(***************************************************************************)
(* The operations of both teams, one at a time: pushes and pops over the   *)
(* queue, or pushes and removals of active jobs, and the reconcile of a    *)
(* team's counters.  The crawl belongs to team 1.                          *)
(***************************************************************************)
CrawlsOf(t) == IF t = 1 THEN Crawls ELSE {}

NextIsolation ==
    \/ \E t \in Teams, j \in {1, 2}, p \in Priorities, to \in Timeouts :
         \E c \in CrawlsOf(t) \cup {Undefined} :
            OnQueue /\ nPushed < MaxOpsPushes /\ Push(t, j, 1, p, to, c)
    \/ Tick
    \/ \E t \in Teams, h \in BOOLEAN : OnQueue /\ PopBegin(1, t, h)
    \/ PopAttempt(1)
    \/ \E t \in Teams, j \in {1, 2}, to \in ActiveTimeouts :
            OnActive /\ PushActive(t, j, to)
    \/ \E t \in Teams, j \in {1, 2} : OnActive /\ RemoveActive(t, j)
    \/ \E t \in Teams : OnQueue /\ ReconcileBegin("team", t)
    \/ \E t \in Teams : OnActive /\ ReconcileBegin("activeTeam", t)
    \/ ReconcileStep

SpecIsolation == InitOps /\ [][NextIsolation]_vars

(***************************************************************************)
(* Properties.                                                             *)
(***************************************************************************)
QueueEntriesOf(t) == {k \in DOMAIN queue : k[1] = t}

CrawlIndexEntriesOf(c) == {k \in DOMAIN crawlIdx : k[1] = c}

ReturnsOf(job) ==
    Cardinality({i \in 1..Len(returned) : returned[i].job = job})

C2_DrainReturnsAll ==
    (phase = "drain" /\ \A w \in Workers : Stopped(w))
        => /\ \A j \in BagToSet(pushed) : ReturnsOf(j) = 1
           /\ Len(returned) = nPushed

\* The example of C3: priorities [10, 10, 5] pushed at times 0 < 1 < 2.
ExampleLoaded ==
    /\ nPushed = 3
    /\ {<<j.priority, j.createdAt>> : j \in BagToSet(pushed)}
          = {<<10, 0>>, <<10, 1>>, <<5, 2>>}

OrderKey(job) == <<job.priority, job.createdAt, job.id>>

KeyLeq(a, b) ==
    \/ a[1] < b[1]
    \/ a[1] = b[1] /\ a[2] < b[2]
    \/ a[1] = b[1] /\ a[2] = b[2] /\ a[3] <= b[3]

\* C3: popNextJob calls made one after another return their jobs in
\* non-decreasing (priority, created_at, job_id) order; after the example
\* load the worker that popped until null has returned priority 5 (time 2),
\* priority 10 (time 0), priority 10 (time 1), in this order.
C3_SequentialOrder ==
    /\ \A i, j \in 1..Len(returned) :
          i < j => KeyLeq(OrderKey(returned[i].job), OrderKey(returned[j].job))
    /\ (ExampleLoaded /\ phase = "drain" /\ Stopped(1))
          => [i \in 1..Len(returned) |->
                <<returned[i].job.priority, returned[i].job.createdAt>>]
               = <<<<5, 2>>, <<10, 0>>, <<10, 1>>>>

C5_CountersMatch ==
    /\ \A t \in Teams :
          getTeamQueueCount(t) = Cardinality(QueueEntriesOf(t))
    /\ \A c \in Crawls :
          getCrawlQueueCount(c) = Cardinality(CrawlIndexEntriesOf(c))

\* C6: at every transaction boundary a queue entry has its crawl-index
\* entry (when the job has a crawl id) and its TTL-index entry (when the job
\* has a timesOutAt), and every index entry has the queue entry it points
\* to.
C6_IndexesMatch ==
    /\ \A k \in DOMAIN queue :
          LET job == Parse(queue[k])
          IN  /\ job.crawlId # Undefined
                    => <<job.crawlId, job.id>> \in DOMAIN crawlIdx
              /\ job.timesOutAt # Undefined
                    => <<job.timesOutAt, k[1], job.id>> \in DOMAIN ttlIdx
    /\ \A x \in DOMAIN crawlIdx :
          <<crawlIdx[x].teamId, crawlIdx[x].priority, crawlIdx[x].createdAt,
            x[2]>> \in DOMAIN queue
    /\ \A x \in DOMAIN ttlIdx :
          <<x[2], ttlIdx[x].priority, ttlIdx[x].createdAt, x[3]>>
              \in DOMAIN queue

\* C7: the queue subspace holds at most one entry with a given job id,
\* also after pushes that reuse an id.
C7_OneEntryPerId ==
    \A k1, k2 \in DOMAIN queue : k1[4] = k2[4] => k1 = k2

\* C8: every count query returns a value >= 0, and 0 when the counter key
\* is missing.
C8_CountsNonNegative ==
    /\ \A t \in Teams :
          /\ getTeamQueueCount(t) >= 0
          /\ getActiveJobCount(t) >= 0
          /\ <<"team", t>> \notin DOMAIN counters => getTeamQueueCount(t) = 0
          /\ <<"activeTeam", t>> \notin DOMAIN counters
                => getActiveJobCount(t) = 0
    /\ \A c \in Crawls :
          /\ getCrawlQueueCount(c) >= 0
          /\ <<"crawl", c>> \notin DOMAIN counters => getCrawlQueueCount(c) = 0

\* C9: a run of reconcileTeamQueueCounter(T) or reconcileCrawlQueueCounter(C)
\* with nothing running concurrently leaves the counter equal to the number
\* of queue entries of T (crawl-index entries of C) and returns that number
\* minus the counter's previous value.
C9_ReconcileExact ==
    (rec.pc = "done" /\ rec.clean /\ rec.kind \in {"team", "crawl"})
        => LET truth == IF rec.kind = "team"
                        THEN Cardinality(QueueEntriesOf(rec.id))
                        ELSE Cardinality(CrawlIndexEntriesOf(rec.id))
           IN  /\ ReadCounter(counters, <<rec.kind, rec.id>>) = truth
               /\ rec.result = truth - rec.before

\* C10: a reconcile operation run a second time right after a first run,
\* with no mutation in between, returns 0 and leaves the counter unchanged.
C10_SecondRunIsNoop ==
    (rec.pc = "done" /\ rec.chain /\ rec.clean)
        => /\ rec.result = 0
           /\ ReadCounter(counters, <<rec.kind, rec.id>>) = rec.before

\* A second run has finished right after a first run that had a counter
\* and records to look at.
C10_Witness ==
    /\ rec.pc = "done"
    /\ rec.chain
    /\ rec.clean
    /\ rec.kind = "activeTeam"
    /\ <<"activeTeam", rec.id>> \in DOMAIN counters
    /\ \E k \in DOMAIN active :
          k[1] = rec.id /\ decodeInt64BE(active[k]) > now

TeamCounter(kv, t) == ReadCounter(kv, <<"team", t>>)

PushWrites(teamId, id, priority, timeout, crawlId) ==
    LET key == <<teamId, priority, now, id>>
        bounded == timeout > 0 /\ timeout < MAX_SAFE_INTEGER
    IN  /\ key \in DOMAIN queue'
        /\ \A k \in DOMAIN queue : k # key => (k \in DOMAIN queue'
                                                /\ queue'[k] = queue[k])
        /\ DOMAIN queue' = DOMAIN queue \cup {key}
        /\ TeamCounter(counters', teamId) = TeamCounter(counters, teamId) + 1
        /\ IF crawlId = Undefined /\ bounded
           THEN /\ Parse(queue'[key]).timesOutAt = now + timeout
                /\ DOMAIN ttlIdx' = DOMAIN ttlIdx \cup {<<now + timeout, teamId, id>>}
           ELSE /\ Parse(queue'[key]).timesOutAt = Undefined
                /\ ttlIdx' = ttlIdx
        /\ IF crawlId # Undefined
           THEN /\ DOMAIN crawlIdx' = DOMAIN crawlIdx \cup {<<crawlId, id>>}
                /\ ReadCounter(counters', <<"crawl", crawlId>>)
                      = ReadCounter(counters, <<"crawl", crawlId>>) + 1
           ELSE /\ crawlIdx' = crawlIdx
                /\ \A c \in Crawls : ReadCounter(counters', <<"crawl", c>>)
                                        = ReadCounter(counters, <<"crawl", c>>)

\* C12: a successful pushJob adds exactly one queue entry, adds 1 to the
\* team-queue counter, writes a TTL-index entry with times_out_at =
\* created_at + timeout iff no crawlId is given and 0 < timeout <
\* MAX_SAFE_INTEGER, and writes the crawl-index entry and adds 1 to the
\* crawl-queue counter iff a crawlId is given.
C12_PushEffects ==
    [][\A t \in Teams, j \in {1, 2}, p \in Priorities, to \in PushTimeouts,
          c \in Crawls \cup {Undefined} :
            Push(t, j, 1, p, to, c)
               => /\ PushWrites(t, j, p, to, c)
                  /\ Cardinality(DOMAIN queue') = Cardinality(DOMAIN queue) + 1
      ]_vars

\* The writes of C12 without the count of queue entries.
C12_PushWritesOnly ==
    [][\A t \in Teams, j \in {1, 2}, p \in Priorities, to \in PushTimeouts,
          c \in Crawls \cup {Undefined} :
            Push(t, j, 1, p, to, c) => PushWrites(t, j, p, to, c)
      ]_vars

\* The queue entries whose job has a times_out_at before the given time.
ExpiredJobs(at) ==
    {k \in DOMAIN queue :
        LET job == Parse(queue[k])
        IN job.timesOutAt # Undefined /\ job.timesOutAt < at}

\* C13: a run of cleanExpiredJobs started at time now (with fewer TTL
\* entries before now than one batch holds) removes exactly the jobs whose
\* times_out_at < now: their queue, TTL-index and crawl-index entries are
\* gone, no other job is removed, each team-queue counter decreases by the
\* number of the team's removed jobs, and the run returns the number of
\* jobs removed.
C13_SweepRemovesExpired ==
    [][(sweep.pc = "batch" /\ sweep'.pc = "idle" /\ sweep.batches = 0)
          => LET gone == ExpiredJobs(sweep.now)
             IN  /\ DOMAIN queue' = DOMAIN queue \ gone
                 /\ \A k \in gone :
                       /\ <<Parse(queue[k]).timesOutAt, k[1], k[4]>>
                             \notin DOMAIN ttlIdx'
                       /\ \A c \in Crawls : <<c, k[4]>> \notin DOMAIN crawlIdx'
                 /\ \A t \in Teams :
                       TeamCounter(counters', t)
                          = TeamCounter(counters, t)
                              - Cardinality({k \in gone : k[1] = t})
                 /\ sweep'.result = Cardinality(gone)
      ]_vars

\* The records of one owner (team or crawl) and the owner's counter.
OwnerView(s, counterType, ownerId) ==
    [records |-> {k \in DOMAIN s.records : k[1] = ownerId},
     count |-> ReadCounter(s.counters, <<counterType, ownerId>>)]

\* C14: from any state, pushActiveJob(T, J, ttl) followed by
\* removeActiveJob(T, J) leaves the active records of T and the team-active
\* counter of T as they were before the push; the same for
\* pushCrawlActiveJob followed by removeCrawlActiveJob.
C14_PushRemoveRoundTrip ==
    /\ \A t \in Teams, j \in JobIds, ttl \in ActiveTimeouts :
          OwnerView(AfterRemoveActive(
                        AfterPushActive(TeamActiveStore, "activeTeam", t, j,
                                        now + ttl),
                        "activeTeam", t, j), "activeTeam", t)
             = OwnerView(TeamActiveStore, "activeTeam", t)
    /\ \A c \in Crawls, j \in JobIds, ttl \in ActiveTimeouts :
          OwnerView(AfterRemoveActive(
                        AfterPushActive(CrawlActiveStore, "activeCrawl", c, j,
                                        now + ttl),
                        "activeCrawl", c, j), "activeCrawl", c)
             = OwnerView(CrawlActiveStore, "activeCrawl", c)

\* C14, as the code has it: the round trip leaves the owner's records and
\* counter as they were when the job had no active record under that owner
\* before the push.
C14_RoundTripOfNewJob ==
    /\ \A t \in Teams, j \in JobIds, ttl \in ActiveTimeouts :
          <<t, j>> \notin DOMAIN active
             => OwnerView(AfterRemoveActive(
                              AfterPushActive(TeamActiveStore, "activeTeam",
                                              t, j, now + ttl),
                              "activeTeam", t, j), "activeTeam", t)
                   = OwnerView(TeamActiveStore, "activeTeam", t)
    /\ \A c \in Crawls, j \in JobIds, ttl \in ActiveTimeouts :
          <<c, j>> \notin DOMAIN activeCrawl
             => OwnerView(AfterRemoveActive(
                              AfterPushActive(CrawlActiveStore, "activeCrawl",
                                              c, j, now + ttl),
                              "activeCrawl", c, j), "activeCrawl", c)
                   = OwnerView(CrawlActiveStore, "activeCrawl", c)

\* A push and a remove have been made, and the team has an active record
\* and a counter while another job of it has none.
C14_Witness ==
    /\ nActive = 2
    /\ <<1, 1>> \in DOMAIN active
    /\ <<1, 2>> \notin DOMAIN active
    /\ ReadCounter(counters, <<"activeTeam", 1>>) = 1


(***************************************************************************)
(* The team semaphore.                                                     *)
(***************************************************************************)
NonExpired(ls, t) == DOMAIN LiveLeases(ls, t)

\* C15: under every interleaving of acquire, heartbeat, release and the
\* passing of time by the holders of one team with limit semLimit, the
\* number of non-expired holders of the lease set never exceeds semLimit,
\* and a call of acquire is granted only if fewer than semLimit
\* non-expired holders were in the set when it ran.
C15_LeaseCap ==
    /\ [](Cardinality(NonExpired(leases, clock)) <= semLimit)
    /\ [][\A h \in Holders :
            acquire(h) /\ sem'[h].outcome = "granted"
                => Cardinality(NonExpired(leases, clock)) < semLimit]_vars

\* The set is full with NumHolders > semLimit contenders: one holder has
\* been denied after time has passed and leases have been extended.
C15_Witness ==
    /\ semLimit = 2
    /\ clock > 0
    /\ Cardinality(NonExpired(leases, clock)) = semLimit
    /\ \E h \in Holders : h \notin DOMAIN leases /\ sem[h].outcome = "denied"
    /\ \E h \in Holders : h \in DOMAIN leases /\ leases[h] = clock + SEMAPHORE_TTL


\* The withSemaphore bodies of the team that are executing: calls that
\* went through the semaphore and whose func has neither returned nor
\* thrown.
BodiesExecuting ==
    {h \in Callers : sem[h].pc # "bypass" /\ sem[h].body = "running"}

\* C16: at any time the number of withSemaphore bodies executing for the
\* team, among the calls that are not bypassed, is at most the limit, also
\* when a heartbeat fails, a lease expires or the cancel signal fires
\* while a body is running.
C16_BodiesWithinLimit == Cardinality(BodiesExecuting) <= semLimit


\* The calls that went through acquireBlocking and were granted a lease.
Acquired(s) == s.outcome \in {"returned", "threw", "lost"}

\* C17: a withSemaphore call that acquired a lease settles only through a
\* call of release for its holder, whether the body returned, the body
\* threw or the heartbeat failed; once it has settled with a successful
\* release its holder is not in the lease set, in that state and in every
\* later one; and a call that failed in acquireBlocking (timeout or
\* cancellation) holds no lease.
C17_ReleaseOnEveryExit ==
    /\ [][\A h \in Callers :
            sem[h].pc # "done" /\ sem'[h].pc = "done" /\ Acquired(sem'[h])
                /\ sem[h].pc # "bypass"
                => \E ok \in BOOLEAN : release_call(h, ok)]_vars
    /\ [](\A h \in Callers :
            sem[h].pc = "done" /\ Acquired(sem[h]) /\ sem[h].released
                => h \notin DOMAIN leases)
    /\ [](\A h \in Callers :
            sem[h].outcome = "timeout" => h \notin DOMAIN leases)

\* One call has settled after its body threw and released, its heartbeat
\* loop still pending, while the other failed in acquireBlocking.
C17_Witness ==
    \E h, g \in Callers :
        /\ sem[h].pc = "done" /\ sem[h].outcome = "threw" /\ sem[h].released
        /\ sem[h].hb = "beat"
        /\ sem[g].pc = "done" /\ sem[g].outcome = "timeout"



\* C18: when a heartbeat call answers that the holder is no longer a
\* member while the body of withSemaphore is running, withSemaphore fails
\* with SCRAPE_TIMEOUT (outcome "lost"), and once that failure has been
\* surfaced to the caller the body takes no further step.
C18_LostLeaseAbortsBody ==
    /\ [][\A h \in Callers :
            heartbeat_call(h) /\ sem[h].pc = "holding"
                /\ sem'[h].hb = "failed"
                => sem'[h].outcome = "lost"]_vars
    /\ [][\A h \in Callers :
            sem[h].pc = "done" /\ sem[h].outcome = "lost"
                => ~body_step(h)]_vars


\* C19: a holder that crashed, sending no heartbeat and no release, keeps
\* the expiry of its last successful acquire or heartbeat, which is at
\* most SEMAPHORE_TTL ahead of the time it was written, so that its entry
\* counts as expired within SEMAPHORE_TTL; the next acquire by another
\* holder of the team then removes the entry and is granted if fewer than
\* semLimit non-expired holders remain.
C19_CrashedHolderExpires ==
    /\ [](\A h \in DOMAIN leases : leases[h] <= clock + SEMAPHORE_TTL)
    /\ [][\A h \in Callers :
            sem[h].pc = "crashed" /\ h \in DOMAIN leases'
                => h \in DOMAIN leases /\ leases'[h] = leases[h]]_vars
    /\ [][\A h, g \in Callers :
            /\ sem[h].pc = "crashed"
            /\ h \in DOMAIN leases /\ leases[h] <= clock
            /\ g # h
            /\ sem[g].pc = "acquire" /\ sem'[g].pc \in {"holding", "backoff"}
            => /\ h \notin DOMAIN leases'
               /\ Cardinality(NonExpired(leases, clock)) < semLimit
                    => sem'[g].pc = "holding"]_vars

\* With limit 1 the holder that crashed is out of the lease set and the
\* other caller, which had been denied while the lease lasted, holds it.
C19_Witness ==
    \E h, g \in Callers :
        /\ semLimit = 1
        /\ sem[h].pc = "crashed" /\ h \notin DOMAIN leases
        /\ sem[g].pc = "holding" /\ sem[g].limited
        /\ g \in DOMAIN leases /\ leases[g] > clock


Waiting(h) == sem[h].pc \in {"acquire", "backoff"}

\* C20: with limit semLimit and NumHolders > semLimit workers that each
\* call acquireBlocking once and release within HoldTicks of being
\* granted, under fair scheduling every worker whose deadline exceeds the
\* total holding time ahead of it is eventually granted and so does not
\* end in a timeout.
C20_GrantedWithinDeadline ==
    \A h \in Holders :
        (Waiting(h) /\ sem[h].deadline > HoldingAhead)
            ~> (sem[h].pc = "holding")

\* C20 as the code has it: the deadline has to cover, besides the holding
\* time ahead, one backoff delay for every hand-over of a slot.
C20_GrantedWithBackoffMargin ==
    \A h \in Holders :
        (Waiting(h) /\ sem[h].deadline >= HandOverAhead)
            ~> (sem[h].pc = "holding")

\* With limit 1 a worker with such a deadline is granted at the last
\* moment, after the others have held and released before it.
C20_Witness ==
    \E h \in Holders :
        /\ semLimit = 1
        /\ sem[h].pc = "holding" /\ sem[h].limited
        /\ clock = HandOverAhead
        /\ \A g \in Holders \ {h} :
                sem[g].pc = "done" /\ sem[g].outcome = "returned"


(***************************************************************************)
(* The circuit breaker.                                                    *)
(***************************************************************************)
\* The guarded operation of caller c is refused by checkCircuit().
Refused(c) ==
    /\ calls[c].pc = "idle"
    /\ calls'[c].pc = "idle"
    /\ calls'[c].last = "circuit-open"

\* C21: the failure of a guarded store operation that is the third in a
\* row, with no success between them, leaves the circuit open, and every
\* guarded call begun less than CIRCUIT_OPEN_DURATION_MS after the circuit
\* opened throws FDBCircuitOpenError and does not go to the store.
C21_OpensAndFailsFast ==
    /\ [][\A c \in CircuitCallers :
            /\ operation_end(c, FALSE)
            /\ calls[c].op \in GuardedOperations
            /\ chist'.streak >= CIRCUIT_FAILURE_THRESHOLD
            => circuit'.state = "open"]_vars
    /\ [][\A c \in CircuitCallers, op \in GuardedOperations :
            /\ operation_begin(c, op)
            /\ circuit.state = "open"
            /\ now - chist.openedFirst < CIRCUIT_OPEN_DURATION_MS
            => Refused(c)]_vars

\* Three failures in a row have opened the circuit and a call made within
\* the cool-down has been refused.
C21_Witness ==
    /\ circuit.state = "open"
    /\ chist.streak = CIRCUIT_FAILURE_THRESHOLD
    /\ now = chist.openedFirst + 1
    /\ \E c \in CircuitCallers : calls[c].last = "circuit-open"


\* C22: the first guarded call made CIRCUIT_OPEN_DURATION_MS or more after
\* the circuit opened moves it to half-open and goes to the store; when
\* that call succeeds the circuit is closed with the failure count at 0,
\* and when it fails the circuit is open again with a cool-down that
\* starts at the failure.
C22_ProbeAfterCoolDown ==
    /\ [][\A c \in CircuitCallers, op \in GuardedOperations :
            /\ operation_begin(c, op)
            /\ circuit.state = "open"
            /\ now - chist.openedFirst >= CIRCUIT_OPEN_DURATION_MS
            => circuit'.state = "half-open" /\ calls'[c].pc = "store"]_vars
    /\ [][\A c \in CircuitCallers :
            operation_end(c, TRUE) /\ calls[c].probe
            => circuit' = ClosedCircuit
                 \/ circuit' = [ClosedCircuit EXCEPT
                                  !.openedAt = circuit.openedAt]]_vars
    /\ [][\A c \in CircuitCallers :
            operation_end(c, FALSE) /\ calls[c].probe
            => circuit'.state = "open" /\ circuit'.openedAt = now]_vars


\* The probe, the call that moved the circuit to half-open, is still in
\* its store transaction.
ProbePending(c) ==
    \E p \in CircuitCallers \ {c} : calls[p].pc = "store" /\ calls[p].probe

\* C23: while the circuit is half-open and the outcome of the probe has
\* not been recorded, no other guarded call is let through to the store.
C23_SingleProbe ==
    [][\A c \in CircuitCallers, op \in GuardedOperations :
            /\ operation_begin(c, op)
            /\ circuit.state = "half-open"
            /\ ProbePending(c)
            => calls'[c].pc # "store"]_vars


\* C24: every exported operation that calls the store goes through the
\* circuit breaker: begun while the circuit is open and cooling down it
\* throws FDBCircuitOpenError, and otherwise the outcome of its store
\* transaction is recorded by recordSuccess or recordFailure; the count
\* queries, the janitor sweeps and the reconcile operations included.
C24_EveryOperationGuarded ==
    /\ [][\A c \in CircuitCallers, op \in Operations :
            /\ operation_begin(c, op)
            /\ circuit.state = "open"
            /\ now - circuit.openedAt < CIRCUIT_OPEN_DURATION_MS
            => Refused(c)]_vars
    /\ [][\A c \in CircuitCallers :
            /\ (operation_end(c, TRUE)
                    => circuit' = recordSuccess(circuit))
            /\ (operation_end(c, FALSE)
                    => circuit' = recordFailure(circuit, now))]_vars


\* C25: a release(job_id) by the worker that won the job through pop
\* leaves the job queued: release does not write the queue subspace and
\* after it the queue entry of the job exists, for a later pop to return.
C25_ReleaseRequeues ==
    [][\A w \in Workers :
            arbiter_release(w)
            => queue' = queue /\ arb[w].key \in DOMAIN queue']_vars


\* C26: when removeJobsForCrawl(X) has completed with no push since it
\* began, no queue entry and no crawl-index entry of crawl X remains, the
\* crawl counter of X (accurate before) is 0, every team counter has
\* decreased by the team's removed jobs (it equals the number of the team's
\* remaining entries), and the jobs of other crawls are still queued and
\* indexed; the crawl may hold more jobs than one batch.
C26_CancelRemovesCrawl ==
    cancel.pc = "done" =>
        /\ \A k \in DOMAIN queue : Parse(queue[k]).crawlId # cancel.crawlId
        /\ \A k \in DOMAIN crawlIdx : k[1] # cancel.crawlId
        /\ ReadCounter(counters, <<"crawl", cancel.crawlId>>) = 0
        /\ \A t \in Teams :
              ReadCounter(counters, <<"team", t>>)
                  = Cardinality({k \in DOMAIN queue : k[1] = t})
        /\ \A job \in BagToSet(pushed) :
              job.crawlId # cancel.crawlId =>
                  /\ <<job.teamId, job.priority, job.createdAt, job.id>>
                        \in DOMAIN queue
                  /\ <<job.crawlId, job.id>> \in DOMAIN crawlIdx
                  /\ ReadCounter(counters, <<"crawl", job.crawlId>>)
                        = Cardinality({k \in DOMAIN crawlIdx :
                                          k[1] = job.crawlId})


CannotRun(me, job) ==
    /\ job.crawlId # Undefined
    /\ job.crawlId \in DOMAIN me.crawlCache
    /\ me.crawlCache[job.crawlId]
    /\ me.hasChecker
    /\ job.crawlId \in me.blocked

TimedOut(me, job) == job.timesOutAt # Undefined /\ job.timesOutAt < me.now

LoopPosition(me) == 2 * me.attempt + (IF me.pc = "remove" THEN 1 ELSE 0)

RecordsOf(kv, owner) == {k \in DOMAIN kv : k[1] = owner}

C34_TeamRangeIsTeamQueue ==
    \A t \in Teams :
        LET keys == ScanTeamQueue(t, SCAN_LIMIT)
        IN  /\ SeqToSet(keys) = QueueEntriesOf(t)
            /\ \A i, j \in 1..Len(keys) :
                  i < j =>
                    \/ keys[i][2] < keys[j][2]
                    \/ /\ keys[i][2] = keys[j][2]
                       /\ \/ keys[i][3] < keys[j][3]
                          \/ /\ keys[i][3] = keys[j][3]
                             /\ keys[i][4] < keys[j][4]


\* C35: once the circuit has opened it stays open, with the same opening
\* time, until a guarded call made when the cool-down is over, and that
\* call is let through: while the circuit is open a guarded call begun
\* before the end of the cool-down is refused, one begun at or after it
\* goes to the store, and the outcome of a call that was in flight when
\* the circuit opened leaves the state and the opening time as they are.
C35_LateOutcomesIgnored ==
    /\ [][\A c \in CircuitCallers, ok \in BOOLEAN :
            operation_end(c, ok) /\ circuit.state = "open"
            => /\ circuit'.state = "open"
               /\ circuit'.openedAt = circuit.openedAt]_vars
    /\ [][\A c \in CircuitCallers, op \in GuardedOperations :
            operation_begin(c, op) /\ circuit.state = "open"
            => IF now - chist.openedFirst >= CIRCUIT_OPEN_DURATION_MS
               THEN calls'[c].pc = "store"
               ELSE calls'[c].last = "circuit-open" /\ circuit' = circuit]_vars


\* C36: a call of acquireBlocking with a finite timeout ends, and in one
\* of two ways: granted by an acquire attempt, so that the caller holds a
\* lease, or with the timeout error, thrown when the signal was aborted or
\* the deadline had passed and without an attempt in that pass or any
\* later one; and from the second denied attempt on the timer is set to at
\* most max_delay_ms plus the jitter of max_delay_ms.
C36_AcquireBlockingEnds ==
    /\ (sem[BackoffCaller].pc \in {"acquire", "backoff"})
           ~> (sem[BackoffCaller].pc \in {"holding", "done"})
    /\ [][\A j \in Jitters(max_delay_ms + 1) :
            acquireBlocking_backoff(BackoffCaller, j)
            => LET before == sem[BackoffCaller]
                   after == sem'[BackoffCaller]
               IN  /\ after.pc \in {"holding", "backoff", "done"}
                   /\ after.pc = "holding"
                        => BackoffCaller \in DOMAIN leases'
                   /\ after.pc = "done"
                        => /\ after.outcome = "timeout"
                           /\ before.aborted \/ before.deadline < clock
                           /\ leases' = leases
                   /\ before.aborted \/ before.deadline < clock
                        => after.pc = "done" /\ leases' = leases
                   /\ after.pc = "backoff" /\ before.limited
                        => /\ after.wake - clock <= MaxSleep
                           /\ after.delay <= max_delay_ms]_vars
    /\ [][sem[BackoffCaller].pc = "done"
            => /\ sem'[BackoffCaller] = sem[BackoffCaller]
               /\ BackoffCaller \in DOMAIN leases'
                     <=> BackoffCaller \in DOMAIN leases]_vars

C36_Witness ==
    /\ sem[BackoffCaller].pc = "done"
    /\ sem[BackoffCaller].outcome = "timeout"
    /\ ~sem[BackoffCaller].aborted
    /\ sem[BackoffCaller].limited
    /\ clock > MaxBackoffTimeout


\* A call that went past the semaphore: func runs or has run and no
\* heartbeat loop was started.
Bypassed(s) == s.body # "none" /\ s.hb = "none" /\ s.pc # "crashed"

\* C37: withSemaphore skips the semaphore exactly when the deployment is
\* self-hosted and the limit is at most 1; a call that skipped it has
\* limited = false, holds no lease and has started no heartbeat loop and
\* called no release; in every other case func starts in the step in which
\* an attempt of acquireBlocking is granted, and limited becomes true
\* exactly in a denied attempt of the call.
C37_BypassOnlySelfHosted ==
    /\ [][\A h \in Callers, t \in SemTimeouts, sh \in BOOLEAN :
            withSemaphore_call(h, t, sh)
            => /\ sem'[h].pc = "bypass" <=> (sh /\ semLimit <= 1)
               /\ sem'[h].pc # "bypass"
                    => sem'[h].pc = "acquire" /\ sem'[h].body = "none"]_vars
    /\ [](\A h \in Callers :
            Bypassed(sem[h])
            => /\ ~sem[h].limited
               /\ ~sem[h].released
               /\ h \notin DOMAIN leases
               /\ sem[h].pc \in {"bypass", "done"})
    /\ [][\A h \in Callers :
            sem[h].body = "none" /\ sem'[h].body = "running"
                /\ sem'[h].pc # "bypass"
            => /\ sem[h].pc = "acquire" /\ sem'[h].pc = "holding"
               /\ h \in DOMAIN leases'
               /\ sem'[h].limited = sem[h].limited]_vars
    /\ [][\A h \in Callers :
            (sem'[h].limited # sem[h].limited
                \/ (sem[h].pc = "acquire" /\ sem'[h].pc = "backoff"))
            => /\ sem[h].pc = "acquire" /\ sem'[h].pc = "backoff"
               /\ sem'[h].limited
               /\ h \notin DOMAIN leases'
               /\ sem'[h].body = "none"]_vars

\* func of one call runs with limited = true: the call was denied while
\* the other caller held the only lease.
C37_Witness ==
    \E h \in Callers :
        /\ sem[h].pc = "holding"
        /\ sem[h].body = "running"
        /\ sem[h].limited
        /\ semLimit = 1


\* C38: after the end-of-test verification, lost_job is reported only for
\* jobs whose push was confirmed and that no worker claimed, and
\* incomplete_job only for jobs that were claimed and not completed,
\* whatever the order of the push responses, claims and completions.
C38_EndOfTestReports ==
    harness.verified
    => \A j \in StressJobs :
        /\ <<"lost_job", j>> \in checker.violations
             => harness.push[j] = "confirmed" /\ j \notin harness.claimed
        /\ <<"incomplete_job", j>> \in checker.violations
             => j \in harness.claimed \ harness.completed


\* What the store holds for one team.
TeamView(t) ==
    [queue |-> [k \in {x \in DOMAIN queue : x[1] = t} |-> queue[k]],
     ttl |-> [k \in {x \in DOMAIN ttlIdx : x[2] = t} |-> ttlIdx[k]],
     index |-> [k \in {x \in DOMAIN crawlIdx : crawlIdx[x].teamId = t}
                  |-> crawlIdx[k]],
     active |-> [k \in {x \in DOMAIN active : x[1] = t} |-> active[k]],
     counters |-> [k \in DOMAIN counters \cap
                           {<<"team", t>>, <<"activeTeam", t>>}
                     |-> counters[k]]]

=============================================================================
